---- MODULE Spec2Model ----
(***************************************************************************)
(* svoose: the observation-and-delivery pipeline.                          *)
(*                                                                         *)
(* The module models, each as its own state machine over its own group of  *)
(* variables:                                                              *)
(*   - the six web-vitals observers of src/src/observe/vitals.ts;          *)
(*   - the observe() pipeline of src/unnamed/part_008 (observe.svelte.ts); *)
(*   - the session manager of src/src/observe/session.ts.                  *)
(*                                                                         *)
(* JavaScript runs every handler to completion before the next event is    *)
(* dispatched, so every handler is one atomic action.  Layout-shift values *)
(* are counted in thousandths (0.05 is 50), times in milliseconds.         *)
(***************************************************************************)
EXTENDS Integers, Sequences, FiniteSets, TLC

VARIABLES
    docVisibility,  \* document.visibilityState
    cls,            \* observeCLS closure state
    clsLog,         \* history: the layout shifts delivered, the triggers fired
    lcp,            \* observeLCP closure state
    lcpLog,         \* history: entries seen, and what finalized
    inp,            \* observeINP closure state
    inpLog,         \* history: first duration per interaction, triggers fired
    fcp,            \* observeFCP: observer connected, callback invocations
    fid,            \* observeFID: the same
    ttfb,           \* observeTTFB: the same
    shotLog,        \* history of the three: batches delivered, first entries
    now,            \* Date.now()
    opts,           \* createSessionManager: the normalized config
    currentSession, \* createSessionManager: <<>> for null, else <<session>>
    storage,        \* the browser storage behind opts.storage
    sessLog,        \* history: the last call, what it found and returned
    pipe,           \* observe(): the buffer, and what transport.send was given
    pipeLog,        \* history: events buffered, the buffer at each flush
    beacon,         \* createBeaconTransport: options, and the navigator it runs on
    beaconLog,      \* history: the last send(), what it did
    fetcher,        \* createFetchTransport: options.onError, and every send() so far
    hybrid,         \* createHybridTransport: modes, isUnloading, listeners attached
    hybridLog,      \* history: the last page event or send(), and who got the send
    ingest,         \* observe() with sampling and session tracking
    ingestLog,      \* history: events offered, the last one, ids returned
    producers,      \* global observer, metric emitter, pendingEvents
    producerLog,    \* history: ids issued, events pushed with no pipeline
    win,            \* observeCLS under shifts at the session boundaries
    winLog,         \* history: the last shift and the window it met
    sampler,        \* the rates object a createSampler call closed over
    samplerLog,     \* history: the last shouldSample call
    machine,        \* createMachine closure: _state, _context, observeConfig
    machineLog,     \* history: the last send(), what it ran and emitted
    life,           \* observe() with the CLS observer it set up
    lifeLog,        \* history: the last page event, the vitals it finalized
    registry,       \* globalObserverCallback under several observe() calls
    registryLog,    \* history: the last call, who got the last transition
    tabs,           \* two session managers on one localStorage
    tabsLog         \* history: what each manager returned last, and when

clsVars == <<cls, clsLog>>
lcpVars == <<lcp, lcpLog>>
inpVars == <<inp, inpLog>>
shotVars == <<fcp, fid, ttfb, shotLog>>
sessVars == <<now, opts, currentSession, storage, sessLog>>
pipeVars == <<pipe, pipeLog>>
beaconVars == <<beacon, beaconLog>>
fetchVars == <<fetcher>>
hybridVars == <<hybrid, hybridLog>>
ingestVars == <<ingest, ingestLog>>
prodVars == <<producers, producerLog>>
windowVars == <<win, winLog>>
samplerVars == <<sampler, samplerLog>>
machineVars == <<machine, machineLog>>
lifeVars == <<life, lifeLog>>
registryVars == <<registry, registryLog>>
tabVars == <<tabs, tabsLog>>
vars == <<docVisibility, cls, clsLog, lcp, lcpLog, inp, inpLog, fcp, fid, ttfb,
          shotLog, now, opts, currentSession, storage, sessLog, pipe, pipeLog,
          beacon, beaconLog,
          fetcher,
          hybrid, hybridLog,
          ingest, ingestLog,
          producers, producerLog,
          win, winLog,
          sampler, samplerLog,
          machine, machineLog,
          life, lifeLog,
          registry, registryLog,
          tabs, tabsLog>>

\* What each component leaves alone.
notCLS ==
    <<lcpVars, inpVars, shotVars, sessVars, pipeVars, beaconVars, fetchVars,
      hybridVars, ingestVars, prodVars, windowVars, samplerVars,
      machineVars, lifeVars, registryVars, tabVars>>
notLCP ==
    <<clsVars, inpVars, shotVars, sessVars, pipeVars, beaconVars, fetchVars,
      hybridVars, ingestVars, prodVars, windowVars, samplerVars,
      machineVars, lifeVars, registryVars, tabVars>>
notINP ==
    <<clsVars, lcpVars, shotVars, sessVars, pipeVars, beaconVars, fetchVars,
      hybridVars, ingestVars, prodVars, windowVars, samplerVars,
      machineVars, lifeVars, registryVars, tabVars>>
notShot ==
    <<docVisibility, clsVars, lcpVars, inpVars, sessVars, pipeVars,
      beaconVars, fetchVars, hybridVars, ingestVars, prodVars, windowVars,
      samplerVars, machineVars, lifeVars, registryVars, tabVars>>
notSession ==
    <<docVisibility, clsVars, lcpVars, inpVars, shotVars, pipeVars,
      beaconVars, fetchVars, hybridVars, ingestVars, prodVars, windowVars,
      samplerVars, machineVars, lifeVars, registryVars, tabVars>>
notPipe ==
    <<clsVars, lcpVars, inpVars, shotVars, sessVars, beaconVars, fetchVars,
      hybridVars, ingestVars, prodVars, windowVars, samplerVars,
      machineVars, lifeVars, registryVars, tabVars>>
notBeacon ==
    <<docVisibility, clsVars, lcpVars, inpVars, shotVars, sessVars,
      pipeVars, fetchVars, hybridVars, ingestVars, prodVars, windowVars,
      samplerVars, machineVars, lifeVars, registryVars, tabVars>>
notFetch ==
    <<docVisibility, clsVars, lcpVars, inpVars, shotVars, sessVars,
      pipeVars, beaconVars, hybridVars, ingestVars, prodVars, windowVars,
      samplerVars, machineVars, lifeVars, registryVars, tabVars>>
notHybrid ==
    <<clsVars, lcpVars, inpVars, shotVars, sessVars, pipeVars, ingestVars,
      prodVars, windowVars, samplerVars, machineVars, lifeVars,
      registryVars, tabVars>>
notIngest ==
    <<docVisibility, clsVars, lcpVars, inpVars, shotVars, pipeVars,
      beaconVars, fetchVars, hybridVars, prodVars, windowVars, samplerVars,
      machineVars, lifeVars, registryVars, tabVars>>
notProducers ==
    <<docVisibility, clsVars, lcpVars, inpVars, shotVars, sessVars,
      pipeVars, beaconVars, fetchVars, hybridVars, ingestVars, windowVars,
      samplerVars, machineVars, lifeVars, registryVars, tabVars>>
notSampler ==
    <<docVisibility, clsVars, lcpVars, inpVars, shotVars, sessVars,
      pipeVars, beaconVars, fetchVars, hybridVars, ingestVars, prodVars,
      windowVars, machineVars, lifeVars, registryVars, tabVars>>
notMachine ==
    <<docVisibility, clsVars, lcpVars, inpVars, shotVars, sessVars,
      pipeVars, beaconVars, fetchVars, hybridVars, ingestVars, prodVars,
      windowVars, samplerVars, lifeVars, registryVars, tabVars>>
notLife ==
    <<clsVars, lcpVars, inpVars, shotVars, sessVars, pipeVars, beaconVars,
      fetchVars, hybridVars, ingestVars, prodVars, windowVars, samplerVars,
      machineVars, registryVars, tabVars>>
notRegistry ==
    <<docVisibility, clsVars, lcpVars, inpVars, shotVars, sessVars,
      pipeVars, beaconVars, fetchVars, hybridVars, ingestVars, prodVars,
      windowVars, samplerVars, machineVars, lifeVars, tabVars>>
notTabs ==
    <<docVisibility, clsVars, lcpVars, inpVars, shotVars, sessVars,
      pipeVars, beaconVars, fetchVars, hybridVars, ingestVars, prodVars,
      windowVars, samplerVars, machineVars, lifeVars, registryVars>>
notWindow ==
    <<docVisibility, clsVars, lcpVars, inpVars, shotVars, sessVars,
      pipeVars, beaconVars, fetchVars, hybridVars, ingestVars, prodVars,
      samplerVars, machineVars, lifeVars, registryVars, tabVars>>

-----------------------------------------------------------------------------
(* Helpers *)

RECURSIVE Flatten(_)
Flatten(batches) ==
    IF batches = <<>> THEN <<>> ELSE Head(batches) \o Flatten(Tail(batches))

SetMax(S) == IF S = {} THEN 0 ELSE CHOOSE m \in S : \A x \in S : x <= m

Last(s) == s[Len(s)]

\* S with x added, built at once as an enumerated set (a long chain of
\* unions is otherwise only unfolded when the set is first read).
SetAdd(S, x) == {y : y \in S \cup {x}}

RECURSIVE SumSeq(_)
SumSeq(s) == IF s = <<>> THEN 0 ELSE Head(s) + SumSeq(Tail(s))

-----------------------------------------------------------------------------
(* createMetric / getRating: vitals.ts 9-37 *)

THRESHOLDS ==
    [CLS |-> <<100, 250>>, LCP |-> <<2500, 4000>>, FID |-> <<100, 300>>,
     INP |-> <<200, 500>>, FCP |-> <<1800, 3000>>, TTFB |-> <<800, 1800>>]

getRating(name, value) ==
    IF value <= THRESHOLDS[name][1] THEN "good"
    ELSE IF value <= THRESHOLDS[name][2] THEN "needs-improvement"
    ELSE "poor"

\* The metric's timestamp (Date.now()) is not modelled: nothing reads it.
createMetric(name, value, prevValue) ==
    [name |-> name, value |-> value, rating |-> getRating(name, value),
     delta |-> value - prevValue]

-----------------------------------------------------------------------------
(* observeCLS: vitals.ts 61-153 *)

MaxShifts == 3        \* layout-shift entries delivered in one run
MaxTriggers == 2      \* hidden / pagehide events in one run

SESSION_GAP == 1000
SESSION_MAX == 5000

\* The layout-shift entries the browser may deliver: the time since the
\* previous entry, the shift value and the recent-input flag.
ShiftDeltas == {200, 1001}
ShiftKinds ==
    {[value |-> 50, hadRecentInput |-> FALSE],
     [value |-> 200, hadRecentInput |-> FALSE],
     [value |-> 200, hadRecentInput |-> TRUE]}

\* clsLog is the history the claims are stated over: the shifts delivered
\* so far, the number of finalization triggers (hidden, pagehide, teardown)
\* dispatched to the observer, and whether a shift arrived after a trigger.
CLSNoLog == [shifts |-> <<>>, triggers |-> 0, late |-> FALSE]

CLSTriggered == [clsLog EXCEPT !.triggers = @ + 1]

CLSInitState ==
    [sessionValue |-> 0, sessionStart |-> -1, lastEntryTime |-> 0,
     maxSessionValue |-> 0, prevReportedValue |-> 0, hasReported |-> FALSE,
     active |-> TRUE, reports |-> <<>>]

\* The session test with a gap of exactly SESSION_GAP starting a session.
startsNewSessionAtGap(s, entryTime) ==
    \/ s.sessionStart = -1
    \/ entryTime - s.lastEntryTime >= SESSION_GAP
    \/ entryTime - s.sessionStart > SESSION_MAX

\* The condition under which processEntries starts a new session.
startsNewSession(s, entryTime) ==
    \/ s.sessionStart = -1
    \/ entryTime - s.lastEntryTime > SESSION_GAP
    \/ entryTime - s.sessionStart > SESSION_MAX

\* processEntry without session windows: every shift joins the first window.
processEntryOneWindow(s, shift) ==
    IF shift.hadRecentInput THEN s
    ELSE
        LET value == s.sessionValue + shift.value
        IN  [s EXCEPT !.sessionStart =
                          IF s.sessionStart = -1 THEN shift.startTime ELSE @,
                      !.sessionValue = value,
                      !.lastEntryTime = shift.startTime,
                      !.maxSessionValue =
                          IF value > s.maxSessionValue THEN value
                          ELSE s.maxSessionValue]

\* One iteration of the for loop of processEntries.
processEntry(s, shift) ==
    IF shift.hadRecentInput THEN s
    ELSE
        LET entryTime == shift.startTime
            fresh == startsNewSession(s, entryTime)
            start == IF fresh THEN entryTime ELSE s.sessionStart
            value == (IF fresh THEN 0 ELSE s.sessionValue) + shift.value
        IN  [s EXCEPT !.sessionStart = start,
                      !.sessionValue = value,
                      !.lastEntryTime = entryTime,
                      !.maxSessionValue =
                          IF value > s.maxSessionValue THEN value
                          ELSE s.maxSessionValue]

RECURSIVE processEntries(_, _)
processEntries(s, entries) ==
    IF entries = <<>> THEN s
    ELSE processEntries(processEntry(s, Head(entries)), Tail(entries))

reportCLS(s) ==
    IF s.maxSessionValue > 0 /\ s.maxSessionValue # s.prevReportedValue
    THEN [s EXCEPT !.reports =
                       Append(s.reports,
                              createMetric("CLS", s.maxSessionValue,
                                           s.prevReportedValue)),
                   !.prevReportedValue = s.maxSessionValue,
                   !.hasReported = TRUE]
    ELSE s

\* The PerformanceObserver callback: a batch of one or two entries.
CLSLastTime ==
    IF clsLog.shifts = <<>> THEN 0 ELSE Last(clsLog.shifts).startTime

CLSStamp(k, t) ==
    [startTime |-> t, value |-> k.value, hadRecentInput |-> k.hadRecentInput]

CLSEntries ==
    /\ cls.active
    /\ \E k1 \in ShiftKinds, d1 \in ShiftDeltas, more \in BOOLEAN,
          k2 \in ShiftKinds, d2 \in ShiftDeltas :
          LET e1 == CLSStamp(k1, CLSLastTime + d1)
              e2 == CLSStamp(k2, e1.startTime + d2)
              batch == IF more THEN <<e1, e2>> ELSE <<e1>>
          IN  /\ Len(clsLog.shifts) + Len(batch) <= MaxShifts
              /\ cls' = processEntries(cls, batch)
              /\ clsLog' = [clsLog EXCEPT !.shifts = @ \o batch,
                                          !.late = clsLog.triggers > 0]
    /\ UNCHANGED docVisibility
    /\ UNCHANGED notCLS

\* visibilitychange: the document becomes hidden or visible again.
CLSVisibilityChange ==
    /\ cls.active
    /\ clsLog.triggers < MaxTriggers
    /\ docVisibility' = IF docVisibility = "visible" THEN "hidden" ELSE "visible"
    /\ IF docVisibility' = "hidden"
       THEN cls' = reportCLS(cls) /\ clsLog' = CLSTriggered
       ELSE UNCHANGED <<cls, clsLog>>
    /\ UNCHANGED notCLS

CLSPageHide ==
    /\ cls.active
    /\ clsLog.triggers < MaxTriggers
    /\ cls' = reportCLS(cls)
    /\ clsLog' = CLSTriggered
    /\ UNCHANGED docVisibility
    /\ UNCHANGED notCLS

\* The cleanup function returned by observeCLS.
CLSCleanup ==
    /\ cls.active
    /\ LET off == [cls EXCEPT !.active = FALSE]
       IN  cls' = IF ~off.hasReported /\ off.maxSessionValue > 0
                  THEN reportCLS(off) ELSE off
    /\ clsLog' = CLSTriggered
    /\ UNCHANGED docVisibility
    /\ UNCHANGED notCLS

CLSInit == cls = CLSInitState /\ clsLog = CLSNoLog

-----------------------------------------------------------------------------
(* observeLCP: vitals.ts 166-228 *)

MaxLCPEntries == 3    \* largest-contentful-paint entries delivered in one run
MaxLCPEvents == 3     \* input and visibilitychange events in one run
MaxLCPMissed == 1     \* entries produced behind a disconnected observer

\* From one entry's startTime to the next one's.  A later candidate is a
\* larger element, usually painted later; its startTime is earlier when it
\* is the load time of an image whose render time is not exposed.
LCPDeltas == {500, 2000, -300}

LCPInitState ==
    [lcpValue |-> 0, prevReportedValue |-> 0, hasReported |-> FALSE,
     observing |-> TRUE, listening |-> TRUE, reports |-> <<>>]

\* lcpLog is the history the claims are stated over: the number of entries
\* delivered and the last one's start time, the number of input and
\* visibility events dispatched, whether cleanup ran, and `due`: the last
\* known value at the first finalizing event (input, hidden, teardown) that
\* came after an entry (0 while there was none); the largest start time
\* delivered and whether the start times came in non-decreasing order;
\* `missed`: the entries the browser produced after observer.disconnect().
LCPNoLog ==
    [entries |-> 0, last |-> 0, events |-> 0, torn |-> FALSE, due |-> 0,
     largest |-> 0, ordered |-> TRUE, missed |-> 0]

LCPFinalizing(log) ==
    IF log.due = 0 /\ log.entries > 0 THEN [log EXCEPT !.due = log.last] ELSE log

\* reportLCP that forgets to set hasReported.
reportLCPNoFlag(s) ==
    IF s.lcpValue > 0 /\ ~s.hasReported
    THEN [s EXCEPT !.reports =
                       Append(s.reports,
                              createMetric("LCP", s.lcpValue, s.prevReportedValue)),
                   !.prevReportedValue = s.lcpValue]
    ELSE s

reportLCP(s) ==
    IF s.lcpValue > 0 /\ ~s.hasReported
    THEN [s EXCEPT !.reports =
                       Append(s.reports,
                              createMetric("LCP", s.lcpValue, s.prevReportedValue)),
                   !.prevReportedValue = s.lcpValue,
                   !.hasReported = TRUE]
    ELSE s

\* observer.disconnect() and removeEventListeners().
lcpDetach(s) == [s EXCEPT !.observing = FALSE, !.listening = FALSE]

stopListening(s) == lcpDetach(reportLCP(s))

\* The first entry of the batch wins.
lcpObserveFirst(s, entries) ==
    IF entries # <<>> THEN [s EXCEPT !.lcpValue = Head(entries)] ELSE s

\* The PerformanceObserver callback: the last entry of the batch wins.
lcpObserve(s, entries) ==
    IF entries # <<>> THEN [s EXCEPT !.lcpValue = Last(entries)] ELSE s

LCPEntries ==
    /\ lcp.observing
    /\ \E d1 \in LCPDeltas, more \in BOOLEAN, d2 \in LCPDeltas :
          LET t1 == lcpLog.last + d1
              batch == IF more THEN <<t1, t1 + d2>> ELSE <<t1>>
          IN  /\ lcpLog.entries + Len(batch) <= MaxLCPEntries
              /\ \A i \in DOMAIN batch : batch[i] > 0
              /\ lcp' = lcpObserve(lcp, batch)
              /\ lcpLog' =
                    [lcpLog EXCEPT
                       !.entries = @ + Len(batch),
                       !.last = Last(batch),
                       !.largest = SetMax({@} \cup {batch[i] :
                                                     i \in DOMAIN batch}),
                       !.ordered = /\ @
                                   /\ lcpLog.last <= batch[1]
                                   /\ \A i \in 1..(Len(batch) - 1) :
                                         batch[i] <= batch[i + 1]]
    /\ UNCHANGED docVisibility
    /\ UNCHANGED notLCP

\* The browser has a new largest-contentful-paint entry after stopListening
\* disconnected the observer: the callback is not called.
LCPMissedEntry ==
    /\ ~lcp.observing
    /\ ~lcpLog.torn
    /\ lcpLog.missed < MaxLCPMissed
    /\ lcpLog' = [lcpLog EXCEPT !.missed = @ + 1]
    /\ UNCHANGED <<docVisibility, lcp>>
    /\ UNCHANGED notLCP

\* A keydown, click or pointerdown reaches the document.
LCPInput ==
    /\ ~lcpLog.torn
    /\ lcpLog.events < MaxLCPEvents
    /\ \E type \in {"keydown", "click", "pointerdown"} :
          lcp' = IF lcp.listening THEN stopListening(lcp) ELSE lcp
    /\ lcpLog' = [LCPFinalizing(lcpLog) EXCEPT !.events = @ + 1]
    /\ UNCHANGED docVisibility
    /\ UNCHANGED notLCP

LCPVisibilityChange ==
    /\ ~lcpLog.torn
    /\ lcpLog.events < MaxLCPEvents
    /\ docVisibility' = IF docVisibility = "visible" THEN "hidden" ELSE "visible"
    /\ lcp' = IF lcp.listening /\ docVisibility' = "hidden"
              THEN stopListening(lcp) ELSE lcp
    /\ lcpLog' = [(IF docVisibility' = "hidden" THEN LCPFinalizing(lcpLog)
                   ELSE lcpLog) EXCEPT !.events = @ + 1]
    /\ UNCHANGED notLCP

\* A cleanup that detaches and reports nothing.
LCPCleanupDetachOnly ==
    /\ ~lcpLog.torn
    /\ lcp' = lcpDetach(lcp)
    /\ lcpLog' = [LCPFinalizing(lcpLog) EXCEPT !.torn = TRUE]
    /\ UNCHANGED docVisibility
    /\ UNCHANGED notLCP

\* The cleanup function returned by observeLCP.
LCPCleanup ==
    /\ ~lcpLog.torn
    /\ lcp' = lcpDetach(IF ~lcp.hasReported /\ lcp.lcpValue > 0
                        THEN reportLCP(lcp) ELSE lcp)
    /\ lcpLog' = [LCPFinalizing(lcpLog) EXCEPT !.torn = TRUE]
    /\ UNCHANGED docVisibility
    /\ UNCHANGED notLCP

LCPInit == lcp = LCPInitState /\ lcpLog = LCPNoLog

-----------------------------------------------------------------------------
(* observeINP: vitals.ts 265-332 *)

MaxINPBatches == 3    \* event-timing batches delivered in one run
MaxINPTriggers == 2   \* hidden / pagehide events in one run

INP_DEDUP_CAP == 1000

\* Event-timing entries: interactionId 0 stands for "0 or absent" (scroll,
\* mousemove); durations are at least the 16 ms durationThreshold.
InteractionIds == {0, 1, 2}
Durations == {40, 120}
INPEntryKinds == [interactionId : InteractionIds, duration : Durations]

\* A long-lived page: INP_DEDUP_CAP further interactions, each with its own
\* identifier, delivered in one batch.
BurstBase == 10
INPBurst ==
    [i \in 1..INP_DEDUP_CAP |-> [interactionId |-> BurstBase + i, duration |-> 16]]

\* `counted`, `peak` and `clears` are history kept beside the closure's
\* variables: the durations that reached the running-maximum statement, the
\* largest size processedInteractions had after an add, and the calls of
\* processedInteractions.clear().
INPInitState ==
    [maxINP |-> 0, prevReportedValue |-> 0, hasReported |-> FALSE,
     processedInteractions |-> {}, active |-> TRUE, reports |-> <<>>,
     counted |-> {}, peak |-> 0, clears |-> 0]

\* inpLog is the history the claims are stated over: `seen` holds the
\* non-zero interaction identifiers delivered so far, `first` pairs each of
\* them with the duration of the first entry that carried it, `durs` holds the
\* durations of all entries with a non-zero identifier, `due` is the maximum
\* counted duration at the first trigger (hidden, pagehide, teardown) that
\* came after an interaction.
INPNoLog ==
    [seen |-> {}, first |-> {}, durs |-> {}, batches |-> 0, burst |-> FALSE,
     triggers |-> 0, torn |-> FALSE, due |-> 0]

INPNoteEntry(log, e) ==
    IF e.interactionId = 0 THEN log
    ELSE [log EXCEPT
            !.seen = SetAdd(@, e.interactionId),
            !.first = IF e.interactionId \in log.seen THEN @
                      ELSE SetAdd(@, <<e.interactionId, e.duration>>),
            !.durs = SetAdd(@, e.duration)]

\* Entries lo..hi in order.  The range is halved, and the first half is
\* compared (hence computed) before the second half starts, so that the
\* evaluation of a long batch stays shallow.
RECURSIVE INPNote(_, _, _, _)
INPNote(log, entries, lo, hi) ==
    IF lo > hi THEN log
    ELSE IF lo = hi THEN INPNoteEntry(log, entries[lo])
    ELSE LET mid == (lo + hi) \div 2
             left == INPNote(log, entries, lo, mid)
         IN  IF left = log THEN INPNote(log, entries, mid + 1, hi)
             ELSE INPNote(left, entries, mid + 1, hi)

INPTriggered(log) ==
    [log EXCEPT !.triggers = @ + 1,
                !.due = IF log.due = 0 /\ log.seen # {}
                        THEN SetMax(inp.counted) ELSE @]

\* reportINP that forgets to set hasReported.
reportINPNoFlag(s) ==
    IF s.maxINP > 0 /\ ~s.hasReported
    THEN [s EXCEPT !.reports =
                       Append(s.reports,
                              createMetric("INP", s.maxINP, s.prevReportedValue)),
                   !.prevReportedValue = s.maxINP]
    ELSE s

reportINP(s) ==
    IF s.maxINP > 0 /\ ~s.hasReported
    THEN [s EXCEPT !.reports =
                       Append(s.reports,
                              createMetric("INP", s.maxINP, s.prevReportedValue)),
                   !.prevReportedValue = s.maxINP,
                   !.hasReported = TRUE]
    ELSE s

\* inpEntry without the processedInteractions.has check.
inpEntryNoDedup(s, e) ==
    IF e.interactionId = 0 THEN s
    ELSE [s EXCEPT !.processedInteractions = SetAdd(@, e.interactionId),
                   !.maxINP = IF e.duration > @ THEN e.duration ELSE @,
                   !.counted = SetAdd(@, e.duration),
                   !.peak = Cardinality(s.processedInteractions) + 1]

\* The size test that lets the set grow one past the cap.
dedupFullOver(processed) == Cardinality(processed) > INP_DEDUP_CAP

\* processedInteractions.size >= 1000
dedupFull(processed) == Cardinality(processed) >= INP_DEDUP_CAP

\* One iteration of the for loop of the PerformanceObserver callback.
inpEntry(s, e) ==
    IF e.interactionId = 0 THEN s
    ELSE IF e.interactionId \in s.processedInteractions THEN s
    ELSE LET full == dedupFull(s.processedInteractions)
             kept == IF full THEN {} ELSE s.processedInteractions
             size == Cardinality(kept) + 1
         IN  [s EXCEPT !.processedInteractions = SetAdd(kept, e.interactionId),
                       !.maxINP = IF e.duration > @ THEN e.duration ELSE @,
                       !.counted = SetAdd(@, e.duration),
                       !.peak = IF size > @ THEN size ELSE @,
                       !.clears = IF full THEN @ + 1 ELSE @]

\* The for loop over entries lo..hi, in order (halved like INPNote).
RECURSIVE inpObserve(_, _, _, _)
inpObserve(s, entries, lo, hi) ==
    IF lo > hi THEN s
    ELSE IF lo = hi THEN inpEntry(s, entries[lo])
    ELSE LET mid == (lo + hi) \div 2
             left == inpObserve(s, entries, lo, mid)
         IN  IF left = s THEN inpObserve(s, entries, mid + 1, hi)
             ELSE inpObserve(left, entries, mid + 1, hi)

INPDeliver(batch, isBurst) ==
    /\ inp.active
    /\ inpLog.batches < MaxINPBatches
    /\ inp' = inpObserve(inp, batch, 1, Len(batch))
    /\ inpLog' = [INPNote(inpLog, batch, 1, Len(batch)) EXCEPT !.batches = @ + 1,
                                                  !.burst = @ \/ isBurst]
    /\ UNCHANGED docVisibility
    /\ UNCHANGED notINP

\* The PerformanceObserver callback with a batch of one or two entries.
INPEntries ==
    \E e1 \in INPEntryKinds, more \in BOOLEAN, e2 \in INPEntryKinds :
        INPDeliver(IF more THEN <<e1, e2>> ELSE <<e1>>, FALSE)

\* The PerformanceObserver callback with the long batch (delivered at most
\* once, while the page has not been hidden yet).
INPLongBatch ==
    /\ ~inpLog.burst
    /\ inpLog.triggers = 0
    /\ INPDeliver(INPBurst, TRUE)

INPVisibilityChange ==
    /\ inp.active
    /\ inpLog.triggers < MaxINPTriggers
    /\ docVisibility' = IF docVisibility = "visible" THEN "hidden" ELSE "visible"
    /\ IF docVisibility' = "hidden"
       THEN inp' = reportINP(inp) /\ inpLog' = INPTriggered(inpLog)
       ELSE UNCHANGED <<inp, inpLog>>
    /\ UNCHANGED notINP

INPPageHide ==
    /\ inp.active
    /\ inpLog.triggers < MaxINPTriggers
    /\ inp' = reportINP(inp)
    /\ inpLog' = INPTriggered(inpLog)
    /\ UNCHANGED docVisibility
    /\ UNCHANGED notINP

\* The cleanup function returned by observeINP.
INPCleanup ==
    /\ inp.active
    /\ LET off == [inp EXCEPT !.active = FALSE]
       IN  inp' = IF ~off.hasReported /\ off.maxINP > 0
                  THEN reportINP(off) ELSE off
    /\ inpLog' = [INPTriggered(inpLog) EXCEPT !.torn = TRUE]
    /\ UNCHANGED docVisibility
    /\ UNCHANGED notINP

INPInit == inp = INPInitState /\ inpLog = INPNoLog

-----------------------------------------------------------------------------
(* observeFCP, observeFID, observeTTFB: vitals.ts 234-248, 338-382 *)

MaxShotBatches == 2   \* batches delivered to each single-shot observer

ShotInitState == [connected |-> TRUE, reports |-> <<>>]

\* shotLog is the history the claims are stated over: per observer, the
\* number of batches delivered and the first entry of the first non-empty one.
ShotNoLog ==
    [fcp |-> [batches |-> 0, first |-> <<>>],
     fid |-> [batches |-> 0, first |-> <<>>],
     ttfb |-> [batches |-> 0, first |-> <<>>]]

ShotNote(log, batch) ==
    [batches |-> log.batches + 1,
     first |-> IF log.first = <<>> /\ batch # <<>> THEN <<Head(batch)>>
               ELSE log.first]

BatchesOf(kinds) ==
    {<<>>} \cup {<<e>> : e \in kinds} \cup {<<e1, e2>> : e1 \in kinds, e2 \in kinds}

PaintEntries ==
    [name : {"first-paint", "first-contentful-paint"}, startTime : {1200, 2500}]

FirstInputEntries ==
    {[startTime |-> 1000, processingStart |-> 1050],
     [startTime |-> 2000, processingStart |-> 2350]}

\* Navigation entries; activationStart is absent in browsers without
\* prerendering / bfcache support.
NavigationEntries ==
    [responseStart : {150, 900}]
        \cup [responseStart : {150, 900}, activationStart : {0, 200}]

\* observeFCP's callback: the for loop over the batch.
fcpEntry(s, entry) ==
    IF entry.name = "first-contentful-paint"
    THEN [s EXCEPT !.reports = Append(@, createMetric("FCP", entry.startTime, 0)),
                   !.connected = FALSE]
    ELSE s

RECURSIVE fcpObserve(_, _)
fcpObserve(s, entries) ==
    IF entries = <<>> THEN s
    ELSE fcpObserve(fcpEntry(s, Head(entries)), Tail(entries))

\* observeFID's callback that forgets observer.disconnect().
fidObserveStayConnected(s, entries) ==
    IF entries # <<>>
    THEN LET entry == entries[1]
             value == entry.processingStart - entry.startTime
         IN  [s EXCEPT !.reports = Append(@, createMetric("FID", value, 0))]
    ELSE s

\* observeFID's callback: only getEntries()[0] is read.
fidObserve(s, entries) ==
    IF entries # <<>>
    THEN LET entry == entries[1]
             value == entry.processingStart - entry.startTime
         IN  [s EXCEPT !.reports = Append(@, createMetric("FID", value, 0)),
                       !.connected = FALSE]
    ELSE s

ttfbValue(entry) ==
    LET activationStart ==
            IF "activationStart" \in DOMAIN entry THEN entry.activationStart ELSE 0
        diff == entry.responseStart - activationStart
    IN  IF diff > 0 THEN diff ELSE 0

\* observeTTFB's callback: only getEntries()[0] is read.
ttfbObserve(s, entries) ==
    IF entries # <<>>
    THEN [s EXCEPT !.reports =
                       Append(@, createMetric("TTFB", ttfbValue(entries[1]), 0)),
                   !.connected = FALSE]
    ELSE s

FCPEntries ==
    /\ fcp.connected
    /\ shotLog.fcp.batches < MaxShotBatches
    /\ \E batch \in BatchesOf(PaintEntries) \ {<<>>} :
          /\ fcp' = fcpObserve(fcp, batch)
          /\ shotLog' = [shotLog EXCEPT !.fcp = ShotNote(@, batch)]
    /\ UNCHANGED <<fid, ttfb>>
    /\ UNCHANGED notShot

FIDEntries ==
    /\ fid.connected
    /\ shotLog.fid.batches < MaxShotBatches
    /\ \E batch \in BatchesOf(FirstInputEntries) :
          /\ fid' = fidObserve(fid, batch)
          /\ shotLog' = [shotLog EXCEPT !.fid = ShotNote(@, batch)]
    /\ UNCHANGED <<fcp, ttfb>>
    /\ UNCHANGED notShot

TTFBEntries ==
    /\ ttfb.connected
    /\ shotLog.ttfb.batches < MaxShotBatches
    /\ \E batch \in BatchesOf(NavigationEntries) :
          /\ ttfb' = ttfbObserve(ttfb, batch)
          /\ shotLog' = [shotLog EXCEPT !.ttfb = ShotNote(@, batch)]
    /\ UNCHANGED <<fcp, fid>>
    /\ UNCHANGED notShot

\* The cleanup functions: observer.disconnect().
FCPCleanup ==
    /\ fcp.connected
    /\ fcp' = [fcp EXCEPT !.connected = FALSE]
    /\ UNCHANGED <<fid, ttfb, shotLog>>
    /\ UNCHANGED notShot

FIDCleanup ==
    /\ fid.connected
    /\ fid' = [fid EXCEPT !.connected = FALSE]
    /\ UNCHANGED <<fcp, ttfb, shotLog>>
    /\ UNCHANGED notShot

TTFBCleanup ==
    /\ ttfb.connected
    /\ ttfb' = [ttfb EXCEPT !.connected = FALSE]
    /\ UNCHANGED <<fcp, fid, shotLog>>
    /\ UNCHANGED notShot

ShotInit ==
    /\ fcp = ShotInitState /\ fid = ShotInitState /\ ttfb = ShotInitState
    /\ shotLog = ShotNoLog

-----------------------------------------------------------------------------
(* createSessionManager: session.ts 56-191 *)

SessTimeout == 2      \* opts.timeout
MaxTime == 6          \* the clock stops here
RandomSuffixes == {"k3", "x9"}

\* generateId: `${Date.now()}-${random}`.  The timestamp is a decimal number
\* and the suffix is base-36 without "-", so the string determines both parts
\* and is modelled as the pair.
generateId(random) == <<now, random>>

\* JSON.stringify(session): the text of an object with the three fields, as
\* the list of its tokens.
stringify(session) ==
    <<"{", "id", session.id, "startedAt", session.startedAt,
      "lastActivity", session.lastActivity, "}">>

\* A session left in storage by an earlier page of the same site.
EarlierSession == [id |-> <<0, "k3">>, startedAt |-> 0, lastActivity |-> 0]

\* Texts found under STORAGE_KEY that no save() wrote: not JSON, and an
\* object without lastActivity.
CorruptItems ==
    { <<"not-json{">>,
      <<"{", "id", <<0, "k3">>, "startedAt", 0, "}">> }

\* JSON.parse and the validation of the structure in load(): <<session>>, or
\* <<>> where the code returns null.
parse(data) ==
    IF Len(data) = 8 /\ data[1] = "{" /\ data[8] = "}"
       /\ data[2] = "id" /\ data[4] = "startedAt" /\ data[6] = "lastActivity"
    THEN <<[id |-> data[3], startedAt |-> data[5], lastActivity |-> data[7]]>>
    ELSE <<>>

\* The call on the storage object that throws although the probe write
\* passes: none, or getItem, setItem (the session text is longer than the
\* probe's) or removeItem.
StorageFaults == {"none", "getItem", "setItem", "removeItem"}

\* JSON.parse throws a SyntaxError on a text that is no JSON.
parseRaises(data) == ~(data[1] = "{" /\ data[Len(data)] = "}")

\* getStorage: null for the memory backend and when the probe write throws.
getStorage == opts.storage # "memory" /\ storage.available

\* The catch block of getStorage: what leaves the function of an exception
\* thrown in its try block.
getStorageRethrows(thrown) == FALSE

getStorageThrew ==
    getStorageRethrows(opts.storage # "memory" /\ ~storage.available)

\* The catch block of load.
loadRethrows(thrown) == FALSE

loadThrew ==
    \/ getStorageThrew
    \/ loadRethrows(/\ getStorage
                    /\ \/ storage.fault = "getItem"
                       \/ storage.item # <<>> /\ parseRaises(storage.item[1]))

\* storage.item is <<>> when getItem returns null, else <<text>>.
load ==
    IF getStorage /\ storage.fault # "getItem" /\ storage.item # <<>>
    THEN parse(storage.item[1]) ELSE <<>>

\* save() writes: there is a storage and setItem does not throw.
writable == getStorage /\ storage.fault # "setItem"

\* A catch block that lets the exception go on.
saveRethrowsAll(thrown) == thrown

\* The catch block of save.
saveRethrows(thrown) == FALSE

saveThrew ==
    \/ getStorageThrew
    \/ saveRethrows(getStorage /\ storage.fault = "setItem")

save(session) ==
    IF writable THEN [storage EXCEPT !.item = <<stringify(session)>>]
    ELSE storage

\* The storage is configured but does not work in full.
degraded ==
    opts.storage # "memory" /\ (~storage.available \/ storage.fault # "none")

newSession(random) ==
    [id |-> generateId(random), startedAt |-> now, lastActivity |-> now]

\* isExpired with >= for >.
isExpiredInclusive(session) == now - session.lastActivity >= opts.timeout

isExpired(session) == now - session.lastActivity > opts.timeout

\* createNew that forgets save(session).
createNewUnsaved(random) ==
    /\ currentSession' = <<newSession(random)>>
    /\ storage' = storage

\* createNew, and the assignment of its result to currentSession.
createNew(random) ==
    /\ currentSession' = <<newSession(random)>>
    /\ storage' = save(newSession(random))

\* Time passes between two calls.
SessTick ==
    /\ \E d \in 1..(opts.timeout + 1) :
          /\ now + d <= MaxTime
          /\ now' = now + d
    /\ UNCHANGED <<opts, currentSession, storage, sessLog>>
    /\ UNCHANGED notSession

\* The storage becomes unusable (quota exceeded, private mode) or usable again.
SessStorageChange ==
    /\ opts.storage # "memory"
    /\ storage.fault = "none"
    /\ storage' = [storage EXCEPT !.available = ~@]
    /\ UNCHANGED <<now, opts, currentSession, sessLog>>
    /\ UNCHANGED notSession

\* A call on the storage starts or stops to throw while the probe passes.
SessStorageFault ==
    /\ opts.storage # "memory"
    /\ storage.available
    /\ \E fault \in StorageFaults \ {storage.fault} :
          storage' = [storage EXCEPT !.fault = fault]
    /\ UNCHANGED <<now, opts, currentSession, sessLog>>
    /\ UNCHANGED notSession

\* The id of the last reset(), while every call since came at most the
\* timeout after the call before it.
SessPinned ==
    IF sessLog.pinned # <<>> /\ now - sessLog.at <= opts.timeout
    THEN sessLog.pinned ELSE <<>>

\* getSessionId(): what it does to the manager and the storage, and (in
\* sessLog'.returned) the id it returns.
getSessionId ==
    LET found == IF currentSession = <<>> THEN load ELSE currentSession
    IN  IF found = <<>> \/ isExpired(found[1])
        THEN \E random \in RandomSuffixes :
                 /\ createNew(random)
                 /\ sessLog' = [op |-> "getSessionId", at |-> now,
                                found |-> found, usable |-> writable,
                                returned |-> <<generateId(random)>>,
                                pinned |-> SessPinned,
                                degraded |-> degraded,
                                threw |-> \/ currentSession = <<>> /\ loadThrew
                                          \/ saveThrew]
        ELSE LET session == [found[1] EXCEPT !.lastActivity = now]
             IN  /\ currentSession' = <<session>>
                 /\ storage' = save(session)
                 /\ sessLog' = [op |-> "getSessionId", at |-> now,
                                found |-> found, usable |-> writable,
                                returned |-> <<session.id>>,
                                pinned |-> SessPinned,
                                degraded |-> degraded,
                                threw |-> \/ currentSession = <<>> /\ loadThrew
                                          \/ saveThrew]

SessGetSessionId ==
    /\ getSessionId
    /\ UNCHANGED <<now, opts>>
    /\ UNCHANGED notSession

\* reset() that keeps a session that has not expired.
SessResetIfExpired ==
    /\ \E random \in RandomSuffixes :
          IF currentSession = <<>> \/ isExpired(currentSession[1])
          THEN /\ createNew(random)
               /\ sessLog' = [op |-> "reset", at |-> now,
                              found |-> currentSession, usable |-> writable,
                              returned |-> <<generateId(random)>>,
                              pinned |-> <<generateId(random)>>,
                              degraded |-> degraded, threw |-> saveThrew]
          ELSE /\ UNCHANGED <<currentSession, storage>>
               /\ sessLog' = [op |-> "reset", at |-> now,
                              found |-> currentSession, usable |-> writable,
                              returned |-> <<currentSession[1].id>>,
                              pinned |-> <<currentSession[1].id>>,
                              degraded |-> degraded, threw |-> saveThrew]
    /\ UNCHANGED <<now, opts>>
    /\ UNCHANGED notSession

SessReset ==
    /\ \E random \in RandomSuffixes :
          /\ createNew(random)
          /\ sessLog' = [op |-> "reset", at |-> now, found |-> currentSession,
                         usable |-> writable,
                         returned |-> <<generateId(random)>>,
                         pinned |-> <<generateId(random)>>,
                         degraded |-> degraded, threw |-> saveThrew]
    /\ UNCHANGED <<now, opts>>
    /\ UNCHANGED notSession

\* The catch block around storage.removeItem in destroy.
destroyRethrows(thrown) == FALSE

destroyThrew ==
    \/ getStorageThrew
    \/ destroyRethrows(getStorage /\ storage.fault = "removeItem")

SessDestroy ==
    /\ currentSession' = <<>>
    /\ storage' = IF getStorage /\ storage.fault # "removeItem"
                  THEN [storage EXCEPT !.item = <<>>] ELSE storage
    /\ sessLog' = [op |-> "destroy", at |-> now, found |-> currentSession,
                   usable |-> getStorage /\ storage.fault # "removeItem",
                   returned |-> <<>>, pinned |-> <<>>,
                   degraded |-> degraded, threw |-> destroyThrew]
    /\ UNCHANGED <<now, opts>>
    /\ UNCHANGED notSession

SessNoLog ==
    [op |-> "none", at |-> 0, found |-> <<>>, usable |-> FALSE,
     returned |-> <<>>, pinned |-> <<>>, degraded |-> FALSE, threw |-> FALSE]

\* The state in which no session manager is looked at.
SessIdle ==
    /\ now = 1
    /\ opts = [timeout |-> SessTimeout, storage |-> "memory"]
    /\ currentSession = <<>>
    /\ storage = [item |-> <<>>, available |-> TRUE, fault |-> "none"]
    /\ sessLog = SessNoLog

\* A manager just created, for every backend; a persistent backend may hold
\* the session of an earlier page.
SessInit ==
    /\ now = 1
    /\ opts \in [timeout : {SessTimeout},
                 storage : {"memory", "sessionStorage", "localStorage"}]
    /\ currentSession = <<>>
    /\ storage \in [item : {<<>>, <<stringify(EarlierSession)>>}
                            \cup {<<c>> : c \in CorruptItems},
                     available : {TRUE}, fault : {"none"}]
    /\ opts.storage = "memory" => storage.item = <<>>
    /\ sessLog = SessNoLog

-----------------------------------------------------------------------------
(* observe(): part_008 59-192 *)

BatchSize == 2        \* config.batchSize
MaxEvents == 4        \* events offered to bufferEvent
MaxFinalMetrics == 2  \* metrics the vitals cleanups report during teardown

\* What transport.send(events) does: returns a promise that settles later,
\* returns no promise, or throws.
SendOutcomes == {"promise", "value", "throws"}

PipeInitState ==
    [buffer |-> <<>>,     \* buffer
     sent |-> <<>>,       \* the arrays transport.send was called with
     pending |-> {},      \* positions in sent whose promise is not settled
     active |-> TRUE]     \* sources, timer and listeners are attached

PipeNoLog ==
    [next |-> 0,          \* events offered so far; an event is its number
     accepted |-> <<>>,   \* events pushed to the buffer
     starts |-> <<>>,     \* the buffer at the start of each flush that found one
     sized |-> <<>>,      \* buffer.length at each flush() bufferEvent called
     trigger |-> "none",  \* what ran last
     flushed |-> FALSE,   \* what ran last called transport.send
     threw |-> FALSE]     \* transport.send threw inside what ran last

\* flush with buffer.slice() for buffer.splice(0, buffer.length).
flushCopy(p, outcome) ==
    IF p.buffer = <<>> THEN p
    ELSE [p EXCEPT !.sent = Append(@, p.buffer),
                   !.pending = IF outcome = "promise"
                               THEN @ \cup {Len(p.sent) + 1} ELSE @]

flush(p, outcome) ==
    IF p.buffer = <<>> THEN p
    ELSE [p EXCEPT !.buffer = <<>>,
                   !.sent = Append(@, p.buffer),
                   !.pending = IF outcome = "promise"
                               THEN @ \cup {Len(p.sent) + 1} ELSE @]

\* A call of flush() on c = [p |-> pipe, l |-> pipeLog], with its history.
callFlush(c, outcome) ==
    [p |-> flush(c.p, outcome),
     l |-> IF c.p.buffer = <<>> THEN c.l
           ELSE [c.l EXCEPT !.starts = Append(@, c.p.buffer),
                            !.flushed = TRUE,
                            !.threw = (outcome = "throws")]]

\* A push that puts the event in front.
pushFront(buffer, event) == <<event>> \o buffer

\* buffer.push(event)
push(buffer, event) == Append(buffer, event)

\* bufferEvent that flushes once the buffer is longer than batchSize.
bufferEventOver(c, pass, outcome) ==
    LET event == c.l.next + 1
        pushed == [c EXCEPT !.p.buffer = push(@, event),
                            !.l.next = event,
                            !.l.accepted = Append(@, event)]
        full == [pushed EXCEPT !.l.sized = Append(@, Len(pushed.p.buffer))]
    IN  IF ~pass THEN [c EXCEPT !.l.next = event]
        ELSE IF Len(pushed.p.buffer) > BatchSize
             THEN callFlush(full, outcome)
             ELSE pushed

\* pass: there is no config.filter, or it returns true for the event.
bufferEvent(c, pass, outcome) ==
    LET event == c.l.next + 1
        pushed == [c EXCEPT !.p.buffer = push(@, event),
                            !.l.next = event,
                            !.l.accepted = Append(@, event)]
        full == [pushed EXCEPT !.l.sized = Append(@, Len(pushed.p.buffer))]
    IN  IF ~pass THEN [c EXCEPT !.l.next = event]
        ELSE IF Len(pushed.p.buffer) >= BatchSize
             THEN callFlush(full, outcome)
             ELSE pushed

\* handleMetric: the metric becomes a vital event and goes to bufferEvent.
handleMetric(c, pass, outcome) == bufferEvent(c, pass, outcome)

PipeStart(trigger) ==
    [p |-> pipe,
     l |-> [pipeLog EXCEPT !.trigger = trigger, !.flushed = FALSE,
                           !.threw = FALSE]]

\* An error, a machine transition or a metric arrives.
PipeEvent ==
    /\ pipe.active
    /\ pipeLog.next < MaxEvents
    /\ \E pass \in BOOLEAN, outcome \in SendOutcomes :
          LET c == bufferEvent(PipeStart("event"), pass, outcome)
          IN  pipe' = c.p /\ pipeLog' = c.l
    /\ UNCHANGED docVisibility
    /\ UNCHANGED notPipe

\* setInterval(flush, config.flushInterval) fires.
PipeTimer ==
    /\ pipe.active
    /\ \E outcome \in SendOutcomes :
          LET c == callFlush(PipeStart("timer"), outcome)
          IN  pipe' = c.p /\ pipeLog' = c.l
    /\ UNCHANGED docVisibility
    /\ UNCHANGED notPipe

PipeVisibilityChange ==
    /\ pipe.active
    /\ docVisibility' = IF docVisibility = "visible" THEN "hidden" ELSE "visible"
    /\ \E outcome \in SendOutcomes :
          LET c == IF docVisibility' = "hidden"
                   THEN callFlush(PipeStart("hidden"), outcome)
                   ELSE PipeStart("visible")
          IN  pipe' = c.p /\ pipeLog' = c.l
    /\ UNCHANGED notPipe

PipeBeforeUnload ==
    /\ pipe.active
    /\ \E outcome \in SendOutcomes :
          LET c == callFlush(PipeStart("beforeunload"), outcome)
          IN  pipe' = c.p /\ pipeLog' = c.l
    /\ UNCHANGED docVisibility
    /\ UNCHANGED notPipe

\* A promise returned by transport.send resolves or rejects; the catch
\* handler only logs.
PipeSettle ==
    /\ \E i \in pipe.pending : pipe' = [pipe EXCEPT !.pending = @ \ {i}]
    /\ pipeLog' = [pipeLog EXCEPT !.trigger = "settle", !.flushed = FALSE,
                                  !.threw = FALSE]
    /\ UNCHANGED docVisibility
    /\ UNCHANGED notPipe

\* cleanups.forEach: the vitals cleanups come first and may report a last
\* metric each; an exception leaves the remaining cleanups undone.
RECURSIVE runCleanups(_, _)
runCleanups(c, finals) ==
    IF c.l.threw THEN c
    ELSE IF finals = <<>> THEN [c EXCEPT !.p.active = FALSE]
    ELSE runCleanups(handleMetric(c, Head(finals).pass, Head(finals).outcome),
                     Tail(finals))

FinalMetrics ==
    UNION { [1..n -> [pass : BOOLEAN, outcome : SendOutcomes]] :
            n \in 0..MaxFinalMetrics }

\* The function observe() returned is called.
PipeTeardown ==
    /\ \E outcome \in SendOutcomes, finals \in FinalMetrics :
          /\ pipeLog.next + Len(finals) <= MaxEvents
          /\ ~pipe.active => finals = <<>>
          /\ LET c == runCleanups(callFlush(PipeStart("teardown"), outcome),
                                  finals)
             IN  pipe' = c.p /\ pipeLog' = c.l
    /\ UNCHANGED docVisibility
    /\ UNCHANGED notPipe

PipeInit ==
    /\ pipe = PipeInitState
    /\ pipeLog = PipeNoLog

-----------------------------------------------------------------------------
(* createBeaconTransport: beacon.ts 8-67 *)

DEFAULT_MAX_PAYLOAD_SIZE == 60 * 1024
MAX_CHUNK_DEPTH == 20

MaxBatchLen == 3      \* events in a batch given event by event

\* The length of JSON.stringify(event), for the events of the model.
EventSizes == {2, 5, 12}

\* options.maxPayloadSize, where given.
PayloadCeilings == {3, 6, 10}

\* An array of events is a sequence of runs [n, size]: n events in a row whose
\* JSON text has the length size.  What sendChunk does depends on no more.
SmallBatches ==
    UNION { [1..k -> [n : {1}, size : EventSizes]] : k \in 0..MaxBatchLen }

\* Arrays too long to write event by event: 2^19 and 2^20 events of two
\* characters, and as many of one character.
LongBatches ==
    { <<[n |-> 2^e, size |-> z]>> : e \in {MAX_CHUNK_DEPTH - 1, MAX_CHUNK_DEPTH},
                                    z \in {1, 2} }

\* events.length
RECURSIVE Length(_)
Length(events) ==
    IF events = <<>> THEN 0 ELSE Head(events).n + Length(Tail(events))

RECURSIVE TextLength(_)
TextLength(events) ==
    IF events = <<>> THEN 0
    ELSE Head(events).n * Head(events).size + TextLength(Tail(events))

\* JSON.stringify(events).length: the brackets, the events, the commas.
payloadLength(events) ==
    IF events = <<>> THEN 2
    ELSE 2 + TextLength(events) + (Length(events) - 1)

\* events.slice(0, k)
RECURSIVE sliceTo(_, _)
sliceTo(events, k) ==
    IF k = 0 \/ events = <<>> THEN <<>>
    ELSE IF Head(events).n <= k
         THEN <<Head(events)>> \o sliceTo(Tail(events), k - Head(events).n)
         ELSE <<[Head(events) EXCEPT !.n = k]>>

\* events.slice(k)
RECURSIVE sliceFrom(_, _)
sliceFrom(events, k) ==
    IF k = 0 \/ events = <<>> THEN events
    ELSE IF Head(events).n <= k
         THEN sliceFrom(Tail(events), k - Head(events).n)
         ELSE <<[Head(events) EXCEPT !.n = @ - k]>> \o Tail(events)

\* What one sendChunk call did, counted.
ChunkNothing ==
    [calls |-> 0,          \* navigator.sendBeacon calls
     largest |-> 0,        \* the longest payload handed to sendBeacon
     handed |-> 0,         \* events in the payloads handed to sendBeacon
     refused |-> 0,        \* sendBeacon calls that returned false
     onError |-> 0,        \* options.onError calls
     consoleErrors |-> 0,  \* console.error calls
     droppedSingle |-> 0,  \* events dropped for exceeding the ceiling alone
     droppedDepth |-> 0,   \* events dropped at the depth limit
     droppedQuiet |-> 0,   \* events given up without sendBeacon, unreported
     deepest |-> 0,        \* the greatest depth sendChunk was called with
     past |-> -1,          \* the greatest depth at which a chunk was
                           \* serialized, -1 if none was
     slices |-> <<>>]      \* the chunks handed to sendBeacon, in call order:
                           \* [from, count, width] is count chunks in a row
                           \* of width events each, the first one starting
                           \* at index from of the array

\* The halves' chunks with the second half sent first.
joinSlicesSecondFirst(a, b, mid) ==
    [i \in DOMAIN b |-> [b[i] EXCEPT !.from = @ + mid]] \o a

\* sendChunk(events.slice(0, mid)) and then sendChunk(events.slice(mid)):
\* the chunks of the first call, then those of the second, whose indices
\* start at mid.  Equal chunks in a row are written as one run.
joinSlices(a, b, mid) ==
    LET moved == [i \in DOMAIN b |-> [b[i] EXCEPT !.from = @ + mid]]
    IN  IF a = <<>> \/ moved = <<>> THEN a \o moved
        ELSE LET end == a[Len(a)]
                 start == moved[1]
             IN  IF /\ end.width = start.width
                    /\ start.from = end.from + end.count * end.width
                 THEN SubSeq(a, 1, Len(a) - 1)
                      \o <<[end EXCEPT !.count = @ + start.count]>>
                      \o Tail(moved)
                 ELSE a \o moved

ChunkBoth(a, b, mid) ==
    [calls |-> a.calls + b.calls,
     largest |-> IF a.largest >= b.largest THEN a.largest ELSE b.largest,
     handed |-> a.handed + b.handed,
     refused |-> a.refused + b.refused,
     onError |-> a.onError + b.onError,
     consoleErrors |-> a.consoleErrors + b.consoleErrors,
     droppedSingle |-> a.droppedSingle + b.droppedSingle,
     droppedDepth |-> a.droppedDepth + b.droppedDepth,
     droppedQuiet |-> a.droppedQuiet + b.droppedQuiet,
     deepest |-> IF a.deepest >= b.deepest THEN a.deepest ELSE b.deepest,
     past |-> IF a.past >= b.past THEN a.past ELSE b.past,
     slices |-> joinSlices(a.slices, b.slices, mid)]

\* What the browser does with a payload: sendBeacon returns false for one
\* longer than it can queue.
UALimits == {5, 2^30}

BeaconNavigators == {"undefined", "noSendBeacon", "sendBeacon"}

\* The comparison with >= for >.
exceedsInclusive(t, events) == payloadLength(events) >= t.maxPayloadSize + 2

\* payload.length > maxPayloadSize
exceeds(t, events) == payloadLength(events) > t.maxPayloadSize

\* The single event given up without a word.
dropSingleQuietly == [ChunkNothing EXCEPT !.droppedSingle = 1]

\* events.length === 1 under an oversize payload: console.error, return.
dropSingle == [ChunkNothing EXCEPT !.consoleErrors = 1, !.droppedSingle = 1]

\* The depth test that lets one more level through.
atDepthLimitOver(depth) == depth > MAX_CHUNK_DEPTH

\* depth >= MAX_CHUNK_DEPTH
atDepthLimit(depth) == depth >= MAX_CHUNK_DEPTH

\* What a sendChunk call at this depth did, with the depth noted.
ChunkAt(did, events, depth) ==
    [did EXCEPT
        !.deepest = IF @ >= depth THEN @ ELSE depth,
        !.past = IF Length(events) > 0 /\ ~atDepthLimit(depth) /\ depth > @
                 THEN depth ELSE @]

\* sendChunk.  Two equal halves do the same, so the second is not computed
\* again.
RECURSIVE sendChunk(_, _, _)
sendChunk(t, events, depth) ==
    ChunkAt(
    IF Length(events) = 0 THEN ChunkNothing
    ELSE IF atDepthLimit(depth)
    THEN [ChunkNothing EXCEPT !.consoleErrors = 1,
                              !.droppedDepth = Length(events)]
    ELSE IF exceeds(t, events)
    THEN IF Length(events) = 1
         THEN dropSingle
         ELSE LET mid == Length(events) \div 2
                  first == sliceTo(events, mid)
                  second == sliceFrom(events, mid)
                  sentFirst == sendChunk(t, first, depth + 1)
              IN  ChunkBoth(sentFirst,
                            IF second = first THEN sentFirst
                            ELSE sendChunk(t, second, depth + 1),
                            mid)
    ELSE IF t.navigator # "sendBeacon"
    THEN [ChunkNothing EXCEPT !.droppedQuiet = Length(events)]
    ELSE LET success == payloadLength(events) <= t.uaLimit
         IN  [ChunkNothing EXCEPT
                 !.calls = 1,
                 !.largest = payloadLength(events),
                 !.handed = Length(events),
                 !.slices = <<[from |-> 0, count |-> 1,
                               width |-> Length(events)]>>,
                 !.refused = IF success THEN 0 ELSE 1,
                 !.onError = IF ~success /\ t.onError THEN 1 ELSE 0],
    events, depth)

\* The transport's send(events).
beaconSend(t, events) ==
    IF Length(events) = 0 THEN ChunkNothing
    ELSE IF t.navigator = "undefined"
    THEN [ChunkNothing EXCEPT !.droppedQuiet = Length(events)]
    ELSE sendChunk(t, events, 0)

BeaconNoLog == [sends |-> 0, events |-> <<>>, did |-> ChunkNothing]

\* createBeaconTransport(endpoint, options), on some browser.
BeaconCreate ==
    /\ \E ceiling \in PayloadCeilings \cup {DEFAULT_MAX_PAYLOAD_SIZE},
          onError \in BOOLEAN, navigator \in BeaconNavigators,
          uaLimit \in UALimits :
          beacon' = [maxPayloadSize |-> ceiling, onError |-> onError,
                     navigator |-> navigator, uaLimit |-> uaLimit]
    /\ beaconLog' = BeaconNoLog
    /\ UNCHANGED notBeacon

BeaconSend ==
    /\ \E events \in SmallBatches \cup LongBatches :
          beaconLog' = [sends |-> 1, events |-> events,
                        did |-> beaconSend(beacon, events)]
    /\ UNCHANGED beacon
    /\ UNCHANGED notBeacon

BeaconInit ==
    /\ beacon = [maxPayloadSize |-> DEFAULT_MAX_PAYLOAD_SIZE, onError |-> FALSE,
                 navigator |-> "sendBeacon", uaLimit |-> 2^30]
    /\ beaconLog = BeaconNoLog

-----------------------------------------------------------------------------
(* createFetchTransport: beacon.ts 220-243 *)

MaxSends == 3         \* send() calls on one transport

\* What happens inside the try block of one send(): JSON.stringify or
\* fetch() throws at once, or fetch() returns a promise that is pending.
FetchStarts == {"stringifyThrows", "fetchThrows", "pending"}

\* The catch block: options.onError?.(error).  onError returns.
fetchCaughtTwice(t, call) ==
    [call EXCEPT !.onError = IF t.onError THEN @ + 2 ELSE @,
                 !.promise = "resolved"]

fetchCaught(t, call) ==
    [call EXCEPT !.onError = IF t.onError THEN @ + 1 ELSE @,
                 !.promise = "resolved"]

\* send(events) up to its first await: what the call has done when it
\* returns its promise.
fetchSend(t, n, start) ==
    LET call == [events |-> n, requests |-> 0, onError |-> 0,
                 failed |-> FALSE, promise |-> "pending"]
    IN  IF n = 0 THEN [call EXCEPT !.promise = "resolved"]
        ELSE IF start = "stringifyThrows"
        THEN fetchCaught(t, [call EXCEPT !.failed = TRUE])
        ELSE IF start = "fetchThrows"
        THEN fetchCaught(t, [call EXCEPT !.requests = 1, !.failed = TRUE])
        ELSE [call EXCEPT !.requests = 1]

\* The awaited fetch() settles: with a response, whatever its status, or
\* with a network failure.
fetchSettled(t, call, ok) ==
    IF ok THEN [call EXCEPT !.promise = "resolved"]
    ELSE fetchCaught(t, [call EXCEPT !.failed = TRUE])

FetcherInitState == [onError |-> FALSE, calls |-> <<>>]

\* createFetchTransport(endpoint, options)
FetchCreate ==
    /\ \E onError \in BOOLEAN :
          fetcher' = [onError |-> onError, calls |-> <<>>]
    /\ UNCHANGED notFetch

FetchSend ==
    /\ Len(fetcher.calls) < MaxSends
    /\ \E n \in 0..2, start \in FetchStarts :
          fetcher' = [fetcher EXCEPT
                         !.calls = Append(@, fetchSend(fetcher, n, start))]
    /\ UNCHANGED notFetch

FetchSettle ==
    /\ \E i \in 1..Len(fetcher.calls), ok \in BOOLEAN :
          /\ fetcher.calls[i].promise = "pending"
          /\ fetcher' = [fetcher EXCEPT
                            !.calls[i] = fetchSettled(fetcher, @, ok)]
    /\ UNCHANGED notFetch

FetchInit == fetcher = FetcherInitState

-----------------------------------------------------------------------------
(* createHybridTransport: beacon.ts 84-130 *)

\* options.default and options.onUnload, "absent" where not given.
ModeOptions == {"absent", "fetch", "beacon"}

HybridInitState ==
    [defaultMode |-> "fetch",   \* options.default ?? 'fetch'
     unloadMode |-> "beacon",   \* options.onUnload ?? 'beacon'
     isUnloading |-> FALSE,
     listening |-> TRUE]        \* the two listeners are attached

HybridNoLog ==
    [last |-> "create", sends |-> 0, via |-> "none",
     destroyed |-> <<>>]   \* <<isUnloading>> as destroy() found it

\* getActiveTransport that looks at the default mode only.
getActiveTransportDefault(h) ==
    IF h.defaultMode = "beacon" THEN "beacon" ELSE "fetch"

getActiveTransport(h) ==
    LET mode == IF h.isUnloading THEN h.unloadMode ELSE h.defaultMode
    IN  IF mode = "beacon" THEN "beacon" ELSE "fetch"

\* createHybridTransport(endpoint, options) with its two transports, on a
\* page; the options carry no onError and no maxPayloadSize.
HybridCreate ==
    /\ \E default \in ModeOptions, onUnload \in ModeOptions :
          hybrid' = [defaultMode |-> IF default = "absent" THEN "fetch"
                                     ELSE default,
                     unloadMode |-> IF onUnload = "absent" THEN "beacon"
                                    ELSE onUnload,
                     isUnloading |-> FALSE,
                     listening |-> TRUE]
    /\ hybridLog' = HybridNoLog
    /\ fetcher' = FetcherInitState
    /\ beaconLog' = BeaconNoLog
    /\ UNCHANGED <<docVisibility, beacon>>
    /\ UNCHANGED notHybrid

\* The page fires beforeunload; onBeforeUnload runs while it is attached.
HybridBeforeUnload ==
    /\ hybrid' = IF hybrid.listening THEN [hybrid EXCEPT !.isUnloading = TRUE]
                 ELSE hybrid
    /\ hybridLog' = [hybridLog EXCEPT !.last = "beforeunload"]
    /\ UNCHANGED <<docVisibility, beaconVars, fetchVars>>
    /\ UNCHANGED notHybrid

\* The page fires visibilitychange; onVisibilityChange runs while it is
\* attached.
HybridVisibilityChange ==
    /\ docVisibility' \in {"visible", "hidden", "prerender"} \ {docVisibility}
    /\ hybrid' = IF ~hybrid.listening THEN hybrid
                 ELSE IF docVisibility' = "hidden"
                 THEN [hybrid EXCEPT !.isUnloading = TRUE]
                 ELSE IF docVisibility' = "visible"
                 THEN [hybrid EXCEPT !.isUnloading = FALSE]
                 ELSE hybrid
    /\ hybridLog' = [hybridLog EXCEPT !.last = "visibilitychange"]
    /\ UNCHANGED <<beaconVars, fetchVars>>
    /\ UNCHANGED notHybrid

\* send(events): getActiveTransport().send(events)
HybridSend ==
    /\ hybridLog.sends < MaxSends
    /\ \E n \in 1..2 :
          IF getActiveTransport(hybrid) = "beacon"
          THEN /\ beaconLog' =
                     [sends |-> 1, events |-> <<[n |-> n, size |-> 5]>>,
                      did |-> beaconSend(beacon, <<[n |-> n, size |-> 5]>>)]
               /\ hybridLog' = [hybridLog EXCEPT !.last = "send",
                                                 !.sends = @ + 1,
                                                 !.via = "beacon"]
               /\ UNCHANGED fetcher
          ELSE /\ \E start \in FetchStarts :
                     fetcher' = [fetcher EXCEPT
                        !.calls = Append(@, fetchSend(fetcher, n, start))]
               /\ hybridLog' = [hybridLog EXCEPT !.last = "send",
                                                 !.sends = @ + 1,
                                                 !.via = "fetch"]
               /\ UNCHANGED beaconLog
    /\ UNCHANGED <<docVisibility, hybrid, beacon>>
    /\ UNCHANGED notHybrid

\* destroy() that leaves the listeners attached.
HybridDestroyNothing ==
    /\ hybrid' = hybrid
    /\ hybridLog' = [hybridLog EXCEPT !.last = "destroy",
                                      !.destroyed = <<hybrid.isUnloading>>]
    /\ UNCHANGED <<docVisibility, beaconVars, fetchVars>>
    /\ UNCHANGED notHybrid

\* destroy(): the two listeners are removed.
HybridDestroy ==
    /\ hybrid' = [hybrid EXCEPT !.listening = FALSE]
    /\ hybridLog' = [hybridLog EXCEPT !.last = "destroy",
                                      !.destroyed = <<hybrid.isUnloading>>]
    /\ UNCHANGED <<docVisibility, beaconVars, fetchVars>>
    /\ UNCHANGED notHybrid

HybridInit ==
    /\ hybrid = HybridInitState
    /\ hybridLog = HybridNoLog

-----------------------------------------------------------------------------
(* createSampler: part_007 (sampling.ts) 62-145.  Rates and draws are      *)
(* counted in tenths: 0.3 is 3, 1 is 10.                                    *)

SamplingTypes == {"vitals", "errors", "custom", "transitions", "identify"}

\* Rates a caller may configure, also outside [0, 1].
RateOptions == {-5, 0, 3, 10, 15}

\* Values of Math.random(), which is below 1.
Draws == {0, 3}

normalizeRate(rate) ==
    IF rate <= 0 THEN 0 ELSE IF rate >= 10 THEN 10 ELSE rate

\* The rates object of createSampler(config): config is [number |-> rate],
\* or [map |-> m] with m a function from some of the types to rates.
createSampler(config) ==
    IF "number" \in DOMAIN config
    THEN [type \in SamplingTypes |->
             IF type = "identify" THEN 10 ELSE normalizeRate(config.number)]
    ELSE [type \in SamplingTypes |->
             IF type \in DOMAIN config.map
             THEN normalizeRate(config.map[type]) ELSE normalizeRate(10)]

\* shouldSample with <= for <.
shouldSampleInclusive(rates, eventType, draw) ==
    LET rate == rates[eventType]
    IN  IF rate >= 10 THEN [keep |-> TRUE, draws |-> 0]
        ELSE IF rate <= 0 THEN [keep |-> FALSE, draws |-> 0]
        ELSE [keep |-> draw <= rate, draws |-> 1]

\* shouldSample(eventType): the answer, and how many times it called
\* Math.random(); draw is what Math.random() returns if called.
shouldSample(rates, eventType, draw) ==
    LET rate == rates[eventType]
    IN  IF rate >= 10 THEN [keep |-> TRUE, draws |-> 0]
        ELSE IF rate <= 0 THEN [keep |-> FALSE, draws |-> 0]
        ELSE [keep |-> draw < rate, draws |-> 1]

EventTypes ==
    {"vital", "error", "unhandled-rejection", "custom", "transition",
     "identify"}

eventTypeToSamplingType(eventType) ==
    CASE eventType = "vital" -> "vitals"
      [] eventType \in {"error", "unhandled-rejection"} -> "errors"
      [] eventType = "custom" -> "custom"
      [] eventType = "transition" -> "transitions"
      [] eventType = "identify" -> "identify"
      [] OTHER -> "null"

-----------------------------------------------------------------------------
(* observe() with sampling and session tracking.  The ingestion order is    *)
(* that of the specification, section 4.5: filter, sampler, session id,     *)
(* buffer, flush at the batch size.  The sampler, the session manager and   *)
(* flush are the code's.                                                    *)

MaxIngest == 2        \* events offered to one pipeline

\* options.sampling: a number, or a map of some types to rates; no option is
\* the empty map.
SamplingMaps ==
    {<<>>, [vitals |-> 3, errors |-> 0], [transitions |-> 0, custom |-> 15]}

SamplingOptions ==
    {[number |-> r] : r \in RateOptions} \cup {[map |-> m] : m \in SamplingMaps}

\* options.session: off, or on with the in-memory storage.
SessionOptions == {"off", "memory"}

\* The events offered: a vital, a machine transition, an identify call.
IngestTypes == {"vital", "transition", "identify"}

\* options.transport: its send returns no promise.
IngestTransport == "value"

IngestIdle ==
    [active |-> FALSE,
     filter |-> FALSE,     \* options.filter is given
     rates |-> createSampler([map |-> <<>>]),
     session |-> FALSE,    \* a session manager exists
     buffer |-> <<>>,
     sent |-> <<>>,
     pending |-> {},
     draws |-> 0]          \* Math.random() calls made for sampling

IngestNoLog ==
    [offered |-> 0,
     last |-> [type |-> "none", rejected |-> FALSE, draw |-> 0,
               drawsBefore |-> 0, heldBefore |-> 0],
     ids |-> <<>>]         \* per buffered event, what getSessionId returned

\* The events that were pushed to the buffer, in order.
IngestHeld == Flatten(ingest.sent) \o ingest.buffer

\* The sampler asked before the filter.
admitSampleFirst(g, type, pass, draw) ==
    LET sampled == shouldSample(g.rates, eventTypeToSamplingType(type), draw)
    IN  IF g.filter /\ ~pass THEN [keep |-> FALSE, draws |-> sampled.draws]
        ELSE sampled

\* bufferEvent, first half: the filter, then the sampler.  pass is what
\* options.filter returns for the event.
admit(g, type, pass, draw) ==
    IF g.filter /\ ~pass THEN [keep |-> FALSE, draws |-> 0]
    ELSE shouldSample(g.rates, eventTypeToSamplingType(type), draw)

\* The session id left off.
tagNever(g, event, sid) == event

\* bufferEvent, the session id: sid is what getSessionId() returned.
tag(g, event, sid) ==
    IF g.session THEN [event EXCEPT !.sessionId = sid] ELSE event

\* bufferEvent, second half: push, and flush at the batch size.
append(g, event, outcome) ==
    LET pushed == [g EXCEPT !.buffer = Append(@, event)]
    IN  IF Len(pushed.buffer) >= BatchSize THEN flush(pushed, outcome)
        ELSE pushed

\* observe(options)
IngestObserve ==
    /\ ~ingest.active
    /\ \E filter \in BOOLEAN, sampling \in SamplingOptions,
          session \in SessionOptions :
          /\ ingest' = [IngestIdle EXCEPT !.active = TRUE,
                                          !.filter = filter,
                                          !.rates = createSampler(sampling),
                                          !.session = (session # "off")]
          /\ opts' = IF session = "off" THEN opts
                     ELSE [timeout |-> SessTimeout, storage |-> session]
    /\ UNCHANGED <<now, currentSession, storage, sessLog, ingestLog>>
    /\ UNCHANGED notIngest

\* An event reaches bufferEvent.
IngestEvent ==
    /\ ingest.active
    /\ ingestLog.offered < MaxIngest
    /\ \E type \in IngestTypes, pass \in BOOLEAN, draw \in Draws :
          LET outcome == IngestTransport
              admitted == admit(ingest, type, pass, draw)
              drawn == [ingest EXCEPT !.draws = @ + admitted.draws]
              event == [id |-> ingestLog.offered + 1, type |-> type,
                        sessionId |-> <<>>]
              last == [type |-> type, rejected |-> ingest.filter /\ ~pass,
                       draw |-> draw, drawsBefore |-> ingest.draws,
                       heldBefore |-> Len(IngestHeld)]
          IN  IF admitted.keep
              THEN /\ IF ingest.session THEN getSessionId
                      ELSE UNCHANGED <<currentSession, storage, sessLog>>
                   /\ LET sid == IF ingest.session THEN sessLog'.returned
                                 ELSE <<>>
                      IN  /\ ingest' = append(drawn, tag(drawn, event, sid),
                                              outcome)
                          /\ ingestLog' =
                                [offered |-> ingestLog.offered + 1,
                                 last |-> last,
                                 ids |-> Append(ingestLog.ids, sid)]
              ELSE /\ ingest' = drawn
                   /\ ingestLog' = [ingestLog EXCEPT !.offered = @ + 1,
                                                     !.last = last]
                   /\ UNCHANGED <<currentSession, storage, sessLog>>
    /\ UNCHANGED <<now, opts>>
    /\ UNCHANGED notIngest

\* The timer, the page going hidden or beforeunload: flush().
IngestFlush ==
    /\ ingest.active
    /\ ingest.buffer # <<>>
    /\ ingest' = flush(ingest, IngestTransport)
    /\ UNCHANGED <<sessVars, ingestLog>>
    /\ UNCHANGED notIngest

\* Time passes under a pipeline that tracks the session.
IngestTick ==
    /\ ingest.session
    /\ SessTick

IngestInit ==
    /\ ingest = IngestIdle
    /\ ingestLog = IngestNoLog

-----------------------------------------------------------------------------
(* External producers: metric.ts 10-96, part_008 22-38, part_014 189-206 *)

MAX_PENDING_EVENTS == 100

MaxProduced == 3      \* calls of producers

\* How many times in a row metric() is called.
MetricBursts == {1, MAX_PENDING_EVENTS}

ProducersInitState ==
    [observer |-> FALSE,      \* globalObserverCallback is not null
     emitter |-> FALSE,       \* emitter is not null
     pendingEvents |-> <<>>,
     received |-> <<>>]       \* events handed to a pipeline's bufferEvent

ProducersNoLog ==
    [next |-> 0,              \* events created so far; an event is its number
     calls |-> 0,
     orphanTransitions |-> {},  \* transitions made with no global observer
     orphanMetrics |-> {}]    \* [id, behind]: metrics made with no emitter
                              \* and the length of pendingEvents then

\* emitEvent without the pending buffer.
emitEventDiscard(m, event) ==
    IF m.emitter THEN [m EXCEPT !.received = Append(@, event)] ELSE m

emitEvent(m, event) ==
    IF m.emitter THEN [m EXCEPT !.received = Append(@, event)]
    ELSE IF Len(m.pendingEvents) >= MAX_PENDING_EVENTS THEN m
    ELSE [m EXCEPT !.pendingEvents = Append(@, event)]

\* metric(name, data), n times, for the events first + 1 .. first + n: the
\* first half of the calls, then the rest.
RECURSIVE metric(_, _, _)
metric(m, first, n) ==
    IF n = 0 THEN m
    ELSE IF n = 1 THEN emitEvent(m, first + 1)
    ELSE LET half == n \div 2
             before == metric(m, first, half)
         IN  IF before = m THEN metric(m, first + half, n - half)
             ELSE metric(before, first + half, n - half)

\* setMetricEmitter with pendingEvents.slice() for the splice.
setMetricEmitterCopy(m, emit) ==
    IF emit /\ m.pendingEvents # <<>>
    THEN [m EXCEPT !.emitter = emit,
                   !.received = @ \o m.pendingEvents]
    ELSE [m EXCEPT !.emitter = emit]

setMetricEmitter(m, emit) ==
    IF emit /\ m.pendingEvents # <<>>
    THEN [m EXCEPT !.emitter = emit,
                   !.pendingEvents = <<>>,
                   !.received = @ \o m.pendingEvents]
    ELSE [m EXCEPT !.emitter = emit]

setGlobalObserver(m, callback) == [m EXCEPT !.observer = callback]

\* observe(): the pipeline's bufferEvent becomes the global observer and the
\* metric emitter.
ProdObserve ==
    /\ ~producers.observer
    /\ producers' = setMetricEmitter(setGlobalObserver(producers, TRUE), TRUE)
    /\ UNCHANGED producerLog
    /\ UNCHANGED notProducers

\* The teardown of observe().
ProdTeardown ==
    /\ producers.observer
    /\ producers' = setMetricEmitter(setGlobalObserver(producers, FALSE),
                                     FALSE)
    /\ UNCHANGED producerLog
    /\ UNCHANGED notProducers

\* A machine with observe.transitions makes a transition.
ProdTransition ==
    /\ producerLog.calls < MaxProduced
    /\ LET event == producerLog.next + 1
       IN  /\ producers' = IF producers.observer
                           THEN [producers EXCEPT
                                    !.received = Append(@, event)]
                           ELSE producers
           /\ producerLog' =
                 [producerLog EXCEPT
                    !.next = event,
                    !.calls = @ + 1,
                    !.orphanTransitions =
                        IF producers.observer THEN @ ELSE @ \cup {event}]
    /\ UNCHANGED notProducers

\* metric() is called, once or in a loop.
ProdMetric ==
    /\ producerLog.calls < MaxProduced
    /\ \E n \in MetricBursts :
          /\ producers' = metric(producers, producerLog.next, n)
          /\ producerLog' =
                [producerLog EXCEPT
                   !.next = @ + n,
                   !.calls = @ + 1,
                   !.orphanMetrics =
                       IF producers.emitter THEN @
                       ELSE @ \cup { [id |-> producerLog.next + k,
                                      behind |->
                                          Len(producers.pendingEvents) + k - 1]
                                     : k \in 1..n }]
    /\ UNCHANGED notProducers

ProducersInit ==
    /\ producers = ProducersInitState
    /\ producerLog = ProducersNoLog

-----------------------------------------------------------------------------
(* observeCLS at the boundaries of the session window: vitals.ts 64-108 *)

MaxWindowShifts == 7  \* layout-shift entries delivered in one run

\* The time from one entry to the next.
WindowDeltas == {1, 999, 1000, 1001}

WindowShiftValue == 50

WindowNoLog ==
    [count |-> 0,          \* entries delivered
     time |-> 0,           \* startTime of the last entry
     counted |-> 0,        \* shifts without recent input so far
     previous |-> 0,       \* startTime of the shift counted last
     first |-> 0,          \* startTime of the first shift of the window
     last |-> [startTime |-> 0, hadRecentInput |-> TRUE, opened |-> FALSE,
               joined |-> FALSE, counted |-> 0, previous |-> 0, first |-> 0]]
                           \* the last entry, what it did to sessionValue,
                           \* and counted, previous and first before it

\* The observer is given one layout-shift entry.
WinEntry ==
    /\ winLog.count < MaxWindowShifts
    /\ \E d \in WindowDeltas, recent \in BOOLEAN :
          LET shift == [startTime |-> winLog.time + d,
                        value |-> WindowShiftValue,
                        hadRecentInput |-> recent]
              after == processEntries(win, <<shift>>)
              opened == after.sessionValue = shift.value
              joined == after.sessionValue = win.sessionValue + shift.value
          IN  /\ recent => d = 1000
              /\ win' = after
              /\ winLog' =
                    [count |-> winLog.count + 1,
                     time |-> shift.startTime,
                     counted |-> IF recent THEN winLog.counted
                                 ELSE winLog.counted + 1,
                     previous |-> IF recent THEN winLog.previous
                                  ELSE shift.startTime,
                     first |-> IF ~recent /\ opened THEN shift.startTime
                               ELSE winLog.first,
                     last |-> [startTime |-> shift.startTime,
                               hadRecentInput |-> recent,
                               opened |-> opened,
                               joined |-> joined,
                               counted |-> winLog.counted,
                               previous |-> winLog.previous,
                               first |-> winLog.first]]
    /\ UNCHANGED notWindow

WindowInit ==
    /\ win = CLSInitState
    /\ winLog = WindowNoLog

-----------------------------------------------------------------------------
(* A sampler on its own: createSampler and a run of shouldSample calls,    *)
(* part_007 (sampling.ts) 87-122.                                           *)

MaxSamplerCalls == 3

\* Values of Math.random() in tenths, below and above the rate 0.3 and
\* at it.
SamplerDraws == {0, 2, 3, 4, 9}

SamplerConfigs ==
    {[number |-> r] : r \in RateOptions}
    \cup {[map |-> m] : m \in SamplingMaps}

\* calls: shouldSample calls so far; random: Math.random() calls so far;
\* last: <<>>, or <<the last call>>.
SamplerNoLog(config) ==
    [config |-> config, calls |-> 0, random |-> 0, last |-> <<>>]

SamplerCreate ==
    /\ \E config \in SamplerConfigs :
          /\ sampler' = createSampler(config)
          /\ samplerLog' = SamplerNoLog(config)
    /\ UNCHANGED notSampler

\* shouldSample that keeps every second event of a partly sampled type.
SamplerShouldSampleCounting ==
    /\ samplerLog.calls < MaxSamplerCalls
    /\ \E type \in SamplingTypes, draw \in SamplerDraws :
          LET r == shouldSample(sampler, type, draw)
              kept == IF r.draws = 0 THEN r.keep
                      ELSE samplerLog.calls % 2 = 0
          IN  /\ samplerLog' =
                    [samplerLog EXCEPT
                        !.calls = @ + 1,
                        !.last = <<[type |-> type, draw |-> draw,
                                    result |-> kept, drew |-> 0]>>]
              /\ sampler' = sampler
    /\ UNCHANGED notSampler

\* sampler.shouldSample(type); draw is what Math.random() returns if asked.
SamplerShouldSample ==
    /\ samplerLog.calls < MaxSamplerCalls
    /\ \E type \in SamplingTypes, draw \in SamplerDraws :
          LET r == shouldSample(sampler, type, draw)
          IN  /\ samplerLog' =
                    [samplerLog EXCEPT
                        !.calls = @ + 1,
                        !.random = @ + r.draws,
                        !.last = <<[type |-> type, draw |-> draw,
                                    result |-> r.keep, drew |-> r.draws]>>]
              /\ sampler' = sampler
    /\ UNCHANGED notSampler

SamplerInit ==
    /\ sampler = createSampler([map |-> <<>>])
    /\ samplerLog = SamplerNoLog([map |-> <<>>])

-----------------------------------------------------------------------------
(* createMachine: part_014 (machine.svelte.ts) 35-236.  The machine of the  *)
(* model is a counter: idle -START-> active, active counts up and down      *)
(* behind a guard, active -STOP-> done, done has no transitions.            *)

MaxCount == 2

\* Event types sent: those of the configuration, one no state names, and
\* two that every object literal inherits from Object.prototype.
MachineEvents ==
    {"START", "INCREMENT", "DECREMENT", "CHECK", "STOP", "UNKNOWN",
     "constructor", "__proto__"}

\* Property names an `on` object literal has without defining them.
ObjectPrototypeKeys == {"constructor", "__proto__"}

\* config.states.  A transition is written as a target string or as an
\* object; guard and action name what the function does.
MachineConfig ==
    [idle |->
        [hasOn |-> TRUE, exit |-> "throws", entry |-> "none",
         on |-> [e \in {"START"} |-> [kind |-> "string", target |-> "active"]]],
     active |->
        [hasOn |-> TRUE, exit |-> "returns", entry |-> "returns",
         on |-> [e \in {"INCREMENT", "DECREMENT", "CHECK", "STOP"} |->
                   CASE e = "INCREMENT" ->
                          [kind |-> "object", target |-> "active",
                           guard |-> "none", action |-> "increment"]
                     [] e = "DECREMENT" ->
                          [kind |-> "object", target |-> "active",
                           guard |-> "positive", action |-> "decrement"]
                     [] e = "CHECK" ->
                          [kind |-> "object", target |-> "done",
                           guard |-> "throws", action |-> "throws"]
                     [] e = "STOP" ->
                          [kind |-> "string", target |-> "done"]]],
     done |->
        [hasOn |-> FALSE, exit |-> "none", entry |-> "returns",
         on |-> <<>>]]

\* stateConfig.on?.[eventType]: <<>> for undefined.  The lookup follows the
\* prototype chain: "constructor" finds the function Object, "__proto__"
\* finds Object.prototype; neither has a target, a guard or an action.
getTransition(stateConfig, eventType) ==
    IF eventType \in DOMAIN stateConfig.on
    THEN <<stateConfig.on[eventType]>>
    ELSE IF eventType \in ObjectPrototypeKeys
    THEN <<[kind |-> IF eventType = "constructor" THEN "function"
                     ELSE "object",
            target |-> "undefined", guard |-> "none", action |-> "none"]>>
    ELSE <<>>

\* What one send() did.
MachineNoLog ==
    [sends |-> 0,
     event |-> "none",
     from |-> "none",        \* _state when send() was called
     before |-> 0,           \* _context.count then
     found |-> FALSE,        \* the state's own `on` names the event
     guard |-> "none",       \* "none", "true", "false" or "throws"
     ran |-> <<>>,           \* "exit", "action", "entry" as they were called
     emitted |-> 0,          \* transition events given to the observer
     consoleErrors |-> 0]

\* transition.guard(_context, eventObj)
guardResult(transition, context) ==
    IF transition.kind # "object" \/ transition.guard = "none" THEN "none"
    ELSE IF transition.guard = "throws" THEN "throws"
    ELSE IF context.count > 0 THEN "true" ELSE "false"

\* An action's update merged into the context.
applyAction(context, action) ==
    CASE action = "increment" -> [context EXCEPT !.count = @ + 1]
      [] action = "decrement" -> [context EXCEPT !.count = @ - 1]
      [] OTHER -> context

\* send(event) on the machine m; the result is the machine and the log of
\* the call.
send(m, l, eventType) ==
    LET stateConfig == IF m.state \in DOMAIN MachineConfig
                       THEN <<MachineConfig[m.state]>> ELSE <<>>
        start == [l EXCEPT !.sends = @ + 1, !.event = eventType,
                           !.from = m.state, !.before = m.context.count,
                           !.found = FALSE, !.guard = "none", !.ran = <<>>,
                           !.emitted = 0, !.consoleErrors = 0]
    IN  IF stateConfig = <<>> \/ ~stateConfig[1].hasOn
        THEN [m |-> m, l |-> start]
        ELSE
        LET config == stateConfig[1]
            looked == getTransition(config, eventType)
        IN  IF looked = <<>> THEN [m |-> m, l |-> start]
            ELSE
            LET transition == looked[1]
                guard == guardResult(transition, m.context)
                seen == [start EXCEPT
                            !.found = eventType \in DOMAIN config.on,
                            !.guard = guard]
            IN  IF guard = "false" THEN [m |-> m, l |-> seen]
                ELSE IF guard = "throws"
                THEN [m |-> m, l |-> [seen EXCEPT !.consoleErrors = 1]]
                ELSE
                LET exits == config.exit # "none"
                    acts == transition.kind = "object"
                            /\ transition.action # "none"
                    context == IF acts
                               THEN applyAction(m.context, transition.action)
                               ELSE m.context
                    entry == IF transition.target \in DOMAIN MachineConfig
                             THEN MachineConfig[transition.target].entry
                             ELSE "none"
                    errors == (IF config.exit = "throws" THEN 1 ELSE 0)
                              + (IF acts /\ transition.action = "throws"
                                 THEN 1 ELSE 0)
                IN  [m |-> [m EXCEPT !.state = transition.target,
                                     !.context = context],
                     l |-> [seen EXCEPT
                              !.ran = (IF exits THEN <<"exit">> ELSE <<>>)
                                      \o (IF acts THEN <<"action">> ELSE <<>>)
                                      \o (IF entry # "none" THEN <<"entry">>
                                          ELSE <<>>),
                              !.emitted = IF m.observe THEN 1 ELSE 0,
                              !.consoleErrors = errors]]

\* createMachine(config); observe: config.observe asks for transitions and
\* a global observer is set.
MachineCreate ==
    /\ \E observe \in BOOLEAN :
          machine' = [state |-> "idle", context |-> [count |-> 0],
                      observe |-> observe]
    /\ machineLog' = MachineNoLog
    /\ UNCHANGED notMachine

MaxMachineSends == 6

MachineSend ==
    /\ machineLog.sends < MaxMachineSends
    /\ \E eventType \in MachineEvents :
          /\ eventType = "INCREMENT" => machine.context.count < MaxCount
          /\ LET r == send(machine, machineLog, eventType)
             IN  machine' = r.m /\ machineLog' = r.l
    /\ UNCHANGED notMachine

MachineInit ==
    /\ machine = [state |-> "idle", context |-> [count |-> 0],
                  observe |-> FALSE]
    /\ machineLog = MachineNoLog

-----------------------------------------------------------------------------
(* observe() together with a vitals observer it set up: part_008 129-185   *)
(* and vitals.ts 120-140.  Listeners of one event run in the order they     *)
(* were added: observeCLS adds its visibilitychange and pagehide listeners  *)
(* when observe() calls it (137-142), before observe() adds its own         *)
(* visibilitychange and beforeunload listeners (163-185).  observe() adds  *)
(* no pagehide listener.                                                    *)

MaxLifeShifts == 3
MaxLifeEvents == 6

LifeShiftValue == 50
LifeShiftDelta == 200

\* transport.send returns or throws; the filter takes an event or not.
LifeOutcomes == {"value", "throws"}

LifeInitState ==
    [cls |-> CLSInitState, p |-> PipeInitState, l |-> PipeNoLog,
     shifts |-> 0]

\* event: the last event dispatched; finalized: the pipeline's numbers of
\* the vitals its listeners pushed to the buffer.
LifeNoLog == [events |-> 0, event |-> "none", finalized |-> {}]

LifeStart(trigger) ==
    [p |-> life.p,
     l |-> [life.l EXCEPT !.trigger = trigger, !.flushed = FALSE,
                          !.threw = FALSE]]

\* The observer's listener: reportCLS, whose callback is handleMetric.
lifeReport(c, reported, pass, outcome) ==
    IF Len(reported.reports) > Len(life.cls.reports)
    THEN handleMetric(c, pass, outcome)
    ELSE c

\* The layout-shift PerformanceObserver callback.
LifeShift ==
    /\ life.shifts < MaxLifeShifts
    /\ life' = [life EXCEPT
                   !.shifts = @ + 1,
                   !.cls = processEntries(@,
                              <<[startTime |-> (life.shifts + 1) * LifeShiftDelta,
                                 value |-> LifeShiftValue,
                                 hadRecentInput |-> FALSE]>>)]
    /\ lifeLog' = [lifeLog EXCEPT !.event = "shift", !.finalized = {}]
    /\ UNCHANGED docVisibility
    /\ UNCHANGED notLife

\* visibilitychange: onVisibilityChange of the observer, then
\* visibilityHandler of observe().
LifeVisibilityChange ==
    /\ lifeLog.events < MaxLifeEvents
    /\ docVisibility' = IF docVisibility = "visible" THEN "hidden" ELSE "visible"
    /\ \E pass \in BOOLEAN, outcome \in LifeOutcomes, later \in LifeOutcomes :
          LET hidden == docVisibility' = "hidden"
              reported == IF hidden THEN reportCLS(life.cls) ELSE life.cls
              start == LifeStart(IF hidden THEN "hidden" ELSE "visible")
              pushed == lifeReport(start, reported, pass, outcome)
              c == IF hidden THEN callFlush(pushed, later) ELSE pushed
          IN  /\ life' = [life EXCEPT !.cls = reported, !.p = c.p, !.l = c.l]
              /\ lifeLog' =
                    [events |-> lifeLog.events + 1,
                     event |-> IF hidden THEN "hidden" ELSE "visible",
                     finalized |->
                        IF Len(pushed.l.accepted) > Len(life.l.accepted)
                        THEN {Last(pushed.l.accepted)} ELSE {}]
    /\ UNCHANGED notLife

\* pagehide: onPageHide of the observer; observe() has no listener for it.
LifePageHide ==
    /\ lifeLog.events < MaxLifeEvents
    /\ \E pass \in BOOLEAN, outcome \in LifeOutcomes :
          LET reported == reportCLS(life.cls)
              c == lifeReport(LifeStart("pagehide"), reported, pass, outcome)
          IN  /\ life' = [life EXCEPT !.cls = reported, !.p = c.p, !.l = c.l]
              /\ lifeLog' =
                    [events |-> lifeLog.events + 1,
                     event |-> "pagehide",
                     finalized |->
                        IF Len(c.l.accepted) > Len(life.l.accepted)
                        THEN {Last(c.l.accepted)} ELSE {}]
    /\ UNCHANGED docVisibility
    /\ UNCHANGED notLife

\* beforeunload: unloadHandler of observe(); the observer has no listener
\* for it.
LifeBeforeUnload ==
    /\ lifeLog.events < MaxLifeEvents
    /\ \E outcome \in LifeOutcomes :
          LET c == callFlush(LifeStart("beforeunload"), outcome)
          IN  life' = [life EXCEPT !.p = c.p, !.l = c.l]
    /\ lifeLog' = [events |-> lifeLog.events + 1, event |-> "beforeunload",
                   finalized |-> {}]
    /\ UNCHANGED docVisibility
    /\ UNCHANGED notLife

\* setInterval(flush, config.flushInterval) fires.
LifeTimer ==
    /\ lifeLog.events < MaxLifeEvents
    /\ \E outcome \in LifeOutcomes :
          LET c == callFlush(LifeStart("timer"), outcome)
          IN  life' = [life EXCEPT !.p = c.p, !.l = c.l]
    /\ lifeLog' = [events |-> lifeLog.events + 1, event |-> "timer",
                   finalized |-> {}]
    /\ UNCHANGED docVisibility
    /\ UNCHANGED notLife

LifeInit ==
    /\ life = LifeInitState
    /\ lifeLog = LifeNoLog

-----------------------------------------------------------------------------
(* Several observe() calls and the one global observer: part_008 20-38,    *)
(* 153-155, 187-191.  A pipeline is the number of its observe() call; 0 is  *)
(* null.                                                                    *)

MaxPipelines == 4
MaxRegistryCalls == 7

RegistryInitState ==
    [observer |-> 0,       \* globalObserverCallback: whose bufferEvent
     started |-> 0,        \* observe() calls so far
     torn |-> {},          \* pipelines whose teardown has run
     received |-> <<>>]    \* per pipeline, the transition events it got

RegistryNoLog == [calls |-> 0, last |-> "none", pipeline |-> 0]

\* observe(): setGlobalObserver(bufferEvent), and the cleanup that undoes it
\* is kept for the teardown.
RegObserve ==
    /\ registry.started < MaxPipelines
    /\ registryLog.calls < MaxRegistryCalls
    /\ LET n == registry.started + 1
       IN  /\ registry' = [setGlobalObserver(registry, n) EXCEPT
                              !.started = n,
                              !.received = Append(@, 0)]
           /\ registryLog' = [calls |-> registryLog.calls + 1,
                              last |-> "observe", pipeline |-> n]
    /\ UNCHANGED notRegistry

\* The function some observe() call returned is called:
\* cleanups.forEach runs () => setGlobalObserver(null).
RegTeardown ==
    /\ registryLog.calls < MaxRegistryCalls
    /\ \E n \in 1..registry.started :
          /\ registry' = [setGlobalObserver(registry, 0) EXCEPT
                             !.torn = @ \cup {n}]
          /\ registryLog' = [calls |-> registryLog.calls + 1,
                             last |-> "teardown", pipeline |-> n]
    /\ UNCHANGED notRegistry

\* A machine makes a transition: getGlobalObserver(), and the call if it is
\* not null.
RegTransition ==
    /\ registryLog.calls < MaxRegistryCalls
    /\ registry' = IF registry.observer = 0 THEN registry
                   ELSE [registry EXCEPT !.received[registry.observer] = 1]
    /\ registryLog' = [calls |-> registryLog.calls + 1,
                       last |-> "transition",
                       pipeline |-> registry.observer]
    /\ UNCHANGED notRegistry

RegistryInit ==
    /\ registry = RegistryInitState
    /\ registryLog = RegistryNoLog

-----------------------------------------------------------------------------
(* Two session managers, one in each of two tabs, with storage:            *)
(* 'localStorage': session.ts 56-177.  Each keeps its own currentSession;   *)
(* the storage works and holds the text save() wrote last.                  *)

Managers == {1, 2}
MaxTabTime == 5
MaxTabCalls == 5

TabsInitState ==
    [now |-> 1,
     item |-> <<>>,                \* getItem(STORAGE_KEY): <<>> or <<text>>
     current |-> <<<<>>, <<>>>>]   \* currentSession of each manager

\* returned, at: the id each manager's last getSessionId() returned since
\* the last reset() of either, and the time of that call; joined: the id
\* the last call found in storage, unexpired, with nothing in memory.
TabsNoLog ==
    [calls |-> 0, resets |-> 0, op |-> "none", who |-> 0,
     returned |-> <<<<>>, <<>>>>, at |-> <<0, 0>>, joined |-> <<>>]

tabExpired(t, session) == t.now - session.lastActivity > SessTimeout

\* load() of a manager on the shared storage.
tabLoad(t) == IF t.item = <<>> THEN <<>> ELSE parse(t.item[1])

\* createNew() of manager who: the session is made, saved, and kept.
tabCreateNew(t, who, random) ==
    LET session == [id |-> <<t.now, random>>, startedAt |-> t.now,
                    lastActivity |-> t.now]
    IN  [t EXCEPT !.current[who] = <<session>>,
                  !.item = <<stringify(session)>>]

\* getSessionId() of manager who.
tabGetSessionId(t, who, random) ==
    LET found == IF t.current[who] = <<>> THEN tabLoad(t) ELSE t.current[who]
    IN  IF found = <<>> \/ tabExpired(t, found[1])
        THEN tabCreateNew(t, who, random)
        ELSE LET session == [found[1] EXCEPT !.lastActivity = t.now]
             IN  [t EXCEPT !.current[who] = <<session>>,
                           !.item = <<stringify(session)>>]

TabGetSessionId ==
    /\ tabsLog.calls < MaxTabCalls
    /\ \E who \in Managers, random \in RandomSuffixes :
          LET t == tabGetSessionId(tabs, who, random)
              stored == tabLoad(tabs)
          IN  /\ tabs' = t
              /\ tabsLog' =
                    [tabsLog EXCEPT
                       !.calls = @ + 1,
                       !.op = "getSessionId",
                       !.who = who,
                       !.returned[who] = <<t.current[who][1].id>>,
                       !.at[who] = tabs.now,
                       !.joined =
                          IF /\ tabs.current[who] = <<>>
                             /\ stored # <<>>
                             /\ ~tabExpired(tabs, stored[1])
                          THEN <<stored[1].id>> ELSE <<>>]
    /\ UNCHANGED notTabs

\* reset() of manager who.
TabReset ==
    /\ tabsLog.calls < MaxTabCalls
    /\ \E who \in Managers, random \in RandomSuffixes :
          /\ tabs' = tabCreateNew(tabs, who, random)
          /\ tabsLog' = [tabsLog EXCEPT !.calls = @ + 1,
                                        !.resets = @ + 1,
                                        !.op = "reset",
                                        !.who = who,
                                        !.returned = <<<<>>, <<>>>>,
                                        !.joined = <<>>]
    /\ UNCHANGED notTabs

\* A tab is reloaded: createSessionManager runs again, with no session in
\* memory.
TabReload ==
    /\ tabsLog.calls < MaxTabCalls
    /\ \E who \in Managers :
          /\ tabs.current[who] # <<>>
          /\ tabs' = [tabs EXCEPT !.current[who] = <<>>]
          /\ tabsLog' = [tabsLog EXCEPT !.calls = @ + 1,
                                        !.op = "reload",
                                        !.who = who,
                                        !.returned[who] = <<>>,
                                        !.joined = <<>>]
    /\ UNCHANGED notTabs

TabTick ==
    /\ \E d \in {1, SessTimeout + 1} :
          /\ tabs.now + d <= MaxTabTime
          /\ tabs' = [tabs EXCEPT !.now = @ + d]
    /\ UNCHANGED tabsLog
    /\ UNCHANGED notTabs

TabsInit ==
    /\ tabs = TabsInitState
    /\ tabsLog = TabsNoLog

-----------------------------------------------------------------------------
(* Specifications: one per component; the other components stay as built. *)

DocInit == docVisibility = "visible"

Init ==
    DocInit /\ CLSInit /\ LCPInit /\ INPInit /\ ShotInit /\ SessIdle /\ PipeInit
    /\ BeaconInit /\ FetchInit /\ HybridInit /\ IngestInit
    /\ ProducersInit /\ WindowInit /\ SamplerInit /\ MachineInit
    /\ LifeInit /\ RegistryInit /\ TabsInit

InitSession ==
    DocInit /\ CLSInit /\ LCPInit /\ INPInit /\ ShotInit /\ SessInit /\ PipeInit
    /\ BeaconInit /\ FetchInit /\ HybridInit /\ IngestInit
    /\ ProducersInit /\ WindowInit /\ SamplerInit /\ MachineInit
    /\ LifeInit /\ RegistryInit /\ TabsInit

NextCLS ==
    \/ CLSEntries
    \/ CLSVisibilityChange
    \/ CLSPageHide
    \/ CLSCleanup

NextLCP ==
    \/ LCPEntries
    \/ LCPMissedEntry
    \/ LCPInput
    \/ LCPVisibilityChange
    \/ LCPCleanup

NextINP ==
    \/ INPEntries
    \/ INPLongBatch
    \/ INPVisibilityChange
    \/ INPPageHide
    \/ INPCleanup

NextShot ==
    \/ FCPEntries
    \/ FIDEntries
    \/ TTFBEntries
    \/ FCPCleanup
    \/ FIDCleanup
    \/ TTFBCleanup

NextSession ==
    \/ SessTick
    \/ SessStorageChange
    \/ SessStorageFault
    \/ SessGetSessionId
    \/ SessReset
    \/ SessDestroy

NextPipeline ==
    \/ PipeEvent
    \/ PipeTimer
    \/ PipeVisibilityChange
    \/ PipeBeforeUnload
    \/ PipeSettle
    \/ PipeTeardown

NextBeacon ==
    \/ BeaconCreate
    \/ BeaconSend

NextFetch ==
    \/ FetchCreate
    \/ FetchSend
    \/ FetchSettle

NextHybrid ==
    \/ HybridCreate
    \/ HybridBeforeUnload
    \/ HybridVisibilityChange
    \/ HybridSend
    \/ HybridDestroy

NextIngest ==
    \/ IngestObserve
    \/ IngestEvent
    \/ IngestFlush
    \/ IngestTick

NextProducers ==
    \/ ProdObserve
    \/ ProdTeardown
    \/ ProdTransition
    \/ ProdMetric

NextWindow ==
    \/ WinEntry

NextSampler ==
    \/ SamplerCreate
    \/ SamplerShouldSample

NextMachine ==
    \/ MachineCreate
    \/ MachineSend

NextRegistry ==
    \/ RegObserve
    \/ RegTeardown
    \/ RegTransition

NextTabs ==
    \/ TabGetSessionId
    \/ TabReset
    \/ TabReload
    \/ TabTick

NextLife ==
    \/ LifeShift
    \/ LifeVisibilityChange
    \/ LifePageHide
    \/ LifeBeforeUnload
    \/ LifeTimer

Next ==
    \/ NextCLS \/ NextLCP \/ NextINP \/ NextShot \/ NextSession \/ NextPipeline
    \/ NextBeacon \/ NextFetch \/ NextHybrid \/ NextIngest
    \/ NextProducers \/ NextWindow \/ NextSampler \/ NextMachine
    \/ NextLife \/ NextRegistry \/ NextTabs

SpecCLS == Init /\ [][NextCLS]_vars

SpecLCP == Init /\ [][NextLCP]_vars

SpecINP == Init /\ [][NextINP]_vars

SpecShot == Init /\ [][NextShot]_vars

SpecSession == InitSession /\ [][NextSession]_vars

SpecPipeline == Init /\ [][NextPipeline]_vars

SpecBeacon == Init /\ [][NextBeacon]_vars

SpecFetch == Init /\ [][NextFetch]_vars

SpecHybrid == Init /\ [][NextHybrid]_vars

SpecIngest == Init /\ [][NextIngest]_vars

SpecProducers == Init /\ [][NextProducers]_vars

SpecWindow == Init /\ [][NextWindow]_vars

SpecSampler == Init /\ [][NextSampler]_vars

SpecMachine == Init /\ [][NextMachine]_vars

SpecLife == Init /\ [][NextLife]_vars

SpecRegistry == Init /\ [][NextRegistry]_vars

SpecTabs == Init /\ [][NextTabs]_vars

Spec == Init /\ [][Next]_vars

-----------------------------------------------------------------------------
(* Claims about the CLS observer *)

\* The session windows of a history of shifts, as the specification words
\* them: shifts with recent input are left out; a shift opens a new window
\* when it comes more than SESSION_GAP after the previous shift or more than
\* SESSION_MAX after the first shift of the current window.
CLSCounted == SelectSeq(clsLog.shifts, LAMBDA e : ~e.hadRecentInput)

RECURSIVE WindowFirst(_, _)
WindowFirst(q, i) ==
    IF i = 1 THEN 1
    ELSE LET f == WindowFirst(q, i - 1)
         IN  IF \/ q[i].startTime - q[i - 1].startTime > SESSION_GAP
                \/ q[i].startTime - q[f].startTime > SESSION_MAX
             THEN i ELSE f

RECURSIVE SumValues(_, _, _)
SumValues(q, from, to) ==
    IF from > to THEN 0 ELSE q[from].value + SumValues(q, from + 1, to)

WindowTotal(q, i) == SumValues(q, WindowFirst(q, i), i)

MaxWindow(q) == SetMax({WindowTotal(q, i) : i \in 1..Len(q)})

\* C2: a CLS observer invokes its callback at most once in its lifetime,
\* whatever the sequence of shifts, hidden, visible, pagehide and teardown.
C2_CLSReportsAtMostOnce == Len(cls.reports) <= 1

\* C3: with shifts followed by a single finalization trigger (hidden,
\* pagehide or teardown) the callback is invoked exactly once, never before
\* the trigger, and the reported value is the maximum session-window total
\* over the shifts without recent input.
C3_CLSSingleTrigger ==
    /\ clsLog.triggers = 0 => cls.reports = <<>>
    /\ (clsLog.triggers = 1 /\ ~clsLog.late /\ CLSCounted # <<>>) =>
           /\ Len(cls.reports) = 1
           /\ cls.reports[1].value = MaxWindow(CLSCounted)

\* Three shifts in two windows, then one trigger: the report is the larger
\* window (200), neither the sum of the windows (300) nor the last shift only.
C3_Witness ==
    /\ clsLog.triggers = 1 /\ ~clsLog.late
    /\ Len(clsLog.shifts) = 3 /\ Len(CLSCounted) = 3
    /\ SumValues(CLSCounted, 1, 3) = 300
    /\ WindowFirst(CLSCounted, 3) = 3
    /\ Len(cls.reports) = 1 /\ cls.reports[1].value = 200

-----------------------------------------------------------------------------
(* Claims about the LCP observer *)

\* C4: once an LCP entry has been observed, the first input or hidden event
\* (or teardown, if it comes first) invokes the callback exactly once, with
\* the last known value, and nothing later reports again; nothing is reported
\* before that event.
C4_LCPFinalizedOnce ==
    /\ Len(lcp.reports) <= 1
    /\ lcpLog.due = 0 => lcp.reports = <<>>
    /\ lcpLog.due > 0 => /\ Len(lcp.reports) = 1
                         /\ lcp.reports[1].value = lcpLog.due

\* An input or hidden event finalized LCP, and teardown came later.
C4_Witness ==
    /\ lcpLog.torn /\ lcpLog.events > 0 /\ lcpLog.entries > 1
    /\ lcp.hasReported /\ Len(lcp.reports) = 1
    /\ lcp.reports[1].value = lcpLog.due

-----------------------------------------------------------------------------
(* Claims about the INP observer *)

\* C5: once an interaction has been counted, the first hidden or pagehide
\* event (or teardown, if it comes first) invokes the callback exactly once,
\* with the maximum duration over the interactions counted so far; nothing
\* later reports again, nothing is reported before, and entries without an
\* interaction identifier never contribute to the value.
C5_INPFinalizedOnce ==
    /\ Len(inp.reports) <= 1
    /\ inpLog.due = 0 => inp.reports = <<>>
    /\ inpLog.due > 0 => /\ Len(inp.reports) = 1
                         /\ inp.reports[1].value = inpLog.due
    /\ inp.maxINP = SetMax(inp.counted)
    /\ inp.counted \subseteq inpLog.durs

\* Two interactions of different durations were counted, the first trigger
\* reported the larger one, and a second trigger and teardown added nothing.
C5_Witness ==
    /\ inpLog.triggers > 2 /\ inpLog.torn
    /\ inp.counted = Durations
    /\ Len(inp.reports) = 1
    /\ inp.reports[1].value = SetMax(Durations)

INPFirstMax == SetMax({p[2] : p \in inpLog.first})

\* C6 (as claimed): for any sequence of entries each interaction identifier
\* contributes to the running maximum at most once, so the maximum is the one
\* over the first entries of the identifiers.
C6_FirstEntryOnly == inp.maxINP = INPFirstMax

\* C6 (amended): the same, while at most INP_DEDUP_CAP distinct identifiers
\* have been delivered, that is, while the deduplication set was never
\* cleared.
C6_FirstEntryOnlyBelowCap ==
    Cardinality(inpLog.seen) <= INP_DEDUP_CAP => inp.maxINP = INPFirstMax

\* Identifier 1 came with the smaller duration first and with the larger one
\* later: the later entry was ignored.
C6_Witness ==
    /\ inpLog.first = {<<1, 40>>}
    /\ inpLog.durs = Durations
    /\ inp.maxINP = 40

-----------------------------------------------------------------------------
(* Claims about the single-shot observers *)

\* C7: the FCP observer invokes its callback at most once, for any sequence
\* of paint batches and any number of first-contentful-paint entries in a
\* batch.
C7_FCPReportsAtMostOnce == Len(fcp.reports) <= 1

\* C8: the FID and TTFB observers each invoke their callback at most once:
\* the first non-empty batch is reported at once, from its first entry, the
\* observer is disconnected, and nothing is reported before or after.
C8_FIDAndTTFBSingleShot ==
    /\ fid.reports =
           IF shotLog.fid.first = <<>> THEN <<>>
           ELSE LET e == shotLog.fid.first[1]
                IN  <<createMetric("FID", e.processingStart - e.startTime, 0)>>
    /\ ttfb.reports =
           IF shotLog.ttfb.first = <<>> THEN <<>>
           ELSE LET e == shotLog.ttfb.first[1]
                    start == IF "activationStart" \in DOMAIN e
                             THEN e.activationStart ELSE 0
                IN  <<createMetric("TTFB",
                                   IF e.responseStart < start THEN 0
                                   ELSE e.responseStart - start, 0)>>
    /\ shotLog.fid.first # <<>> => ~fid.connected
    /\ shotLog.ttfb.first # <<>> => ~ttfb.connected

\* Both observers got an empty batch first and then reported a batch of two
\* entries from its first entry; TTFB was clamped to 0.
C8_Witness ==
    /\ shotLog.fid.batches = 2 /\ shotLog.ttfb.batches = 2
    /\ Len(fid.reports) = 1 /\ fid.reports[1].value = 350
    /\ Len(ttfb.reports) = 1 /\ ttfb.reports[1].value = 0

-----------------------------------------------------------------------------
(* Session identity: C9, C10 *)

SessCalled == sessLog.op = "getSessionId" /\ sessLog.found # <<>>

\* Since the logged call only time has passed and the storage has come or
\* gone: the manager's session is the one the call left.
SessGap == sessLog.at - sessLog.found[1].lastActivity

\* C9: a getSessionId() call made at most the timeout after the previous
\* access of the session it finds (in memory, or loaded from storage), a gap of
\* exactly the timeout included, returns that session's id and keeps the
\* session, with its start, however long ago the session started.
C9_SameIdWithinTimeout ==
    (SessCalled /\ SessGap <= opts.timeout) =>
        /\ sessLog.returned = <<sessLog.found[1].id>>
        /\ currentSession =
              <<[sessLog.found[1] EXCEPT !.lastActivity = sessLog.at]>>

\* C9 happens: a call exactly the timeout after the previous access, on a
\* session that started more than the timeout ago.
C9_Witness ==
    /\ SessCalled
    /\ SessGap = opts.timeout
    /\ sessLog.at - sessLog.found[1].startedAt > opts.timeout
    /\ sessLog.returned = <<sessLog.found[1].id>>

\* C10: a getSessionId() call made more than the timeout after the last
\* activity of the session it finds (in memory, or loaded from storage) makes
\* a new session with startedAt = lastActivity = the time of the call, saves
\* it (the configured storage holds its text when that storage is usable; the
\* memory backend and an unusable storage keep it in the manager only), and
\* returns its id, which is not the expired session's id.
C10_NewSessionAfterTimeout ==
    (SessCalled /\ SessGap > opts.timeout) =>
        /\ sessLog.returned # <<sessLog.found[1].id>>
        /\ currentSession = <<[id |-> sessLog.returned[1],
                               startedAt |-> sessLog.at,
                               lastActivity |-> sessLog.at]>>
        /\ sessLog.usable => storage.item = <<stringify(currentSession[1])>>

\* C10 happens for an expired session loaded from storage, with the new
\* session written over it.
C10_Witness ==
    /\ SessCalled
    /\ SessGap > opts.timeout
    /\ sessLog.found = <<EarlierSession>>
    /\ sessLog.usable
    /\ storage.item = <<stringify(currentSession[1])>>
    /\ sessLog.returned = <<currentSession[1].id>>

-----------------------------------------------------------------------------
(* Delivery: C1 *)

NoDuplicates(s) == \A i, j \in 1..Len(s) : s[i] = s[j] => i = j

\* C1: however bufferEvent and the flush triggers (batch size, timer, hidden,
\* beforeunload, teardown) interleave, also when a flush starts while the
\* delivery of an earlier one is still pending, no event is handed to the
\* transport more than once, and every flush hands the transport exactly the
\* events the buffer held when it started, leaving none of them behind.
C1_FlushHandsOverOnce ==
    /\ NoDuplicates(Flatten(pipe.sent) \o pipe.buffer)
    /\ pipe.sent = pipeLog.starts
    /\ pipeLog.trigger \in {"timer", "hidden", "beforeunload"} =>
          pipe.buffer = <<>>

\* C1 happens: the timer flushes while the promise of an earlier flush, one
\* started by the batch size, is not settled.
C1_Witness ==
    /\ Len(pipe.sent) >= 2
    /\ Len(pipe.sent[1]) = BatchSize
    /\ 1 \in pipe.pending
    /\ pipeLog.trigger = "timer"
    /\ pipeLog.flushed
    /\ pipe.buffer = <<>>
-----------------------------------------------------------------------------
(* Beacon chunking: C11, C12 *)

BeaconSent == beaconLog.sends = 1

FitsAlone(run) == run.size + 2 <= beacon.maxPayloadSize

\* The batch is too long as a whole while each of its events fits alone.
BeaconMustSplit ==
    /\ payloadLength(beaconLog.events) > beacon.maxPayloadSize
    /\ \A i \in 1..Len(beaconLog.events) : FitsAlone(beaconLog.events[i])

\* C11 as claimed, on a browser that has navigator.sendBeacon: every payload
\* handed to sendBeacon is within maxPayloadSize, and a batch that exceeds it
\* while each event fits alone makes at least two sendBeacon calls.
C11_ChunksWithinCeiling ==
    (BeaconSent /\ beacon.navigator = "sendBeacon") =>
        /\ beaconLog.did.largest <= beacon.maxPayloadSize
        /\ BeaconMustSplit => beaconLog.did.calls >= 2

\* C11, amended: every payload handed to sendBeacon is within maxPayloadSize;
\* on a browser that has navigator.sendBeacon, a batch of at most 2^19 events
\* that exceeds the ceiling while each event fits alone makes at least two
\* sendBeacon calls, and these carry all of its events.
C11_ChunksWithinCeilingBelowDepth ==
    BeaconSent =>
        /\ beaconLog.did.largest <= beacon.maxPayloadSize
        /\ ( /\ BeaconMustSplit
             /\ beacon.navigator = "sendBeacon"
             /\ Length(beaconLog.events) <= 2^(MAX_CHUNK_DEPTH - 1) ) =>
              /\ beaconLog.did.calls >= 2
              /\ beaconLog.did.handed = Length(beaconLog.events)

\* C11 happens: 2^19 events, of which the ceiling admits one per payload, go
\* out one by one.
C11_Witness ==
    /\ BeaconSent
    /\ BeaconMustSplit
    /\ Length(beaconLog.events) = 2^(MAX_CHUNK_DEPTH - 1)
    /\ beaconLog.did.calls = Length(beaconLog.events)
    /\ beaconLog.did.largest <= beacon.maxPayloadSize

\* C12 as claimed: with onError configured, every event dropped for exceeding
\* the ceiling alone is reported through onError (besides the calls onError
\* gets for refused beacons), and none is handed to sendBeacon.
C12_OversizeSingleCallsOnError ==
    (BeaconSent /\ beacon.onError /\ beaconLog.did.droppedSingle > 0) =>
        /\ beaconLog.did.onError >=
              beaconLog.did.refused + beaconLog.did.droppedSingle
        /\ beaconLog.did.largest <= beacon.maxPayloadSize

\* C12, amended: an event that exceeds the ceiling alone is dropped, neither
\* handed to sendBeacon nor split, and reported with console.error, once for
\* each such event; onError is called for refused beacons only.
C12_OversizeSingleLogged ==
    (BeaconSent /\ beaconLog.did.droppedSingle > 0) =>
        /\ beaconLog.did.largest <= beacon.maxPayloadSize
        /\ beaconLog.did.consoleErrors >= beaconLog.did.droppedSingle
        /\ beaconLog.did.onError =
              (IF beacon.onError THEN beaconLog.did.refused ELSE 0)
        /\ beaconLog.did.handed + beaconLog.did.droppedSingle
              + beaconLog.did.droppedDepth + beaconLog.did.droppedQuiet
           = Length(beaconLog.events)

\* C12 happens: a batch holds an event that fits and one that does not; the
\* first goes out, the second is dropped, and onError, though configured, is
\* not called.
C12_Witness ==
    /\ BeaconSent
    /\ beacon.onError
    /\ beaconLog.did.droppedSingle = 1
    /\ beaconLog.did.handed = 1
    /\ beaconLog.did.consoleErrors = 1
    /\ beaconLog.did.onError = 0
-----------------------------------------------------------------------------
(* The fetch transport: C18 *)

\* C18: each send() of the fetch transport makes at most one request, none
\* for an empty batch, and never a second one after a failure; its promise is
\* never rejected; a failure reaches onError exactly once where onError is
\* configured and nothing where it is not, and a send that did not fail
\* calls onError not at all.
C18_FetchOneRequestNoRetry ==
    \A i \in 1..Len(fetcher.calls) :
        LET call == fetcher.calls[i]
        IN  /\ call.requests <= 1
            /\ call.events = 0 => call.requests = 0 /\ call.promise = "resolved"
            /\ call.promise \in {"pending", "resolved"}
            /\ call.onError = (IF call.failed /\ fetcher.onError THEN 1 ELSE 0)
            /\ call.failed => call.promise = "resolved"

\* C18 happens: a request failed on the network after the call returned,
\* onError got the failure once, and the promise is resolved.
C18_Witness ==
    \E i \in 1..Len(fetcher.calls) :
        /\ fetcher.onError
        /\ fetcher.calls[i].requests = 1
        /\ fetcher.calls[i].failed
        /\ fetcher.calls[i].onError = 1
        /\ fetcher.calls[i].promise = "resolved"
        /\ i < Len(fetcher.calls)
-----------------------------------------------------------------------------
(* The hybrid transport: C13 *)

HybridDefaults ==
    hybrid.defaultMode = "fetch" /\ hybrid.unloadMode = "beacon"

\* C13: while the hybrid transport's listeners are attached, isUnloading is
\* false when the transport is created, true after beforeunload and after
\* visibilitychange to hidden, false after visibilitychange to visible; with
\* the default modes a send() goes to the beacon transport if isUnloading is
\* true at the call and to the fetch transport if it is false, also after
\* destroy().
C13_HybridFollowsPageLifecycle ==
    /\ hybridLog.last = "create" => ~hybrid.isUnloading
    /\ (hybrid.listening /\ hybridLog.last = "beforeunload") =>
          hybrid.isUnloading
    /\ (hybrid.listening /\ hybridLog.last = "visibilitychange"
        /\ docVisibility = "hidden") => hybrid.isUnloading
    /\ (hybrid.listening /\ hybridLog.last = "visibilitychange"
        /\ docVisibility = "visible") => ~hybrid.isUnloading
    /\ (hybridLog.last = "send" /\ HybridDefaults) =>
          /\ hybridLog.via = (IF hybrid.isUnloading THEN "beacon" ELSE "fetch")
          /\ hybridLog.via = "beacon" => beaconLog.sends = 1
          /\ hybridLog.via = "fetch" => fetcher.calls # <<>>

\* C13 happens: a default hybrid transport has sent through fetch, the page
\* has gone away since, and the last send went to the beacon.
C13_Witness ==
    /\ HybridDefaults
    /\ hybrid.listening
    /\ hybridLog.last = "send"
    /\ hybrid.isUnloading
    /\ hybridLog.via = "beacon"
    /\ beaconLog.did.calls = 1
    /\ Len(fetcher.calls) = 1
    /\ hybridLog.sends = 2
-----------------------------------------------------------------------------
(* Sampling and session tagging in bufferEvent *)

IngestAppended == Len(IngestHeld) = ingestLog.last.heldBefore + 1

IngestLastRate ==
    ingest.rates[eventTypeToSamplingType(ingestLog.last.type)]

-----------------------------------------------------------------------------
(* Transport failures and teardown of observe() *)

\* C17: a failure of transport.send, a rejected promise or a synchronous
\* throw, never propagates out of flush() or bufferEvent() to the caller.
C17_SendFailureContained ==
    pipeLog.flushed => ~pipeLog.threw

\* C19: when teardown has run, the timer is cancelled, the visibility and
\* unload listeners are removed and the global observer is null, so that
\* nothing makes the pipeline call transport.send afterwards.
C19_TeardownDetaches ==
    pipeLog.trigger = "teardown" => ~pipe.active
-----------------------------------------------------------------------------
(* Producers with no active pipeline *)

ProdSeen == {producers.received[i] : i \in DOMAIN producers.received}

ProdQueued ==
    {producers.pendingEvents[i] : i \in DOMAIN producers.pendingEvents}

OrphanMetricIds == {o.id : o \in producerLog.orphanMetrics}

Increasing(s) == \A i, j \in 1..Len(s) : i < j => s[i] < s[j]

-----------------------------------------------------------------------------
(* The pending buffer of metric() *)

Ascending(s) == \A i \in 1..(Len(s) - 1) : s[i] < s[i + 1]

\* C21: the pending buffer never holds more than MAX_PENDING_EVENTS events;
\* a metric made behind a full buffer is dropped and the earlier ones keep
\* their places; connecting an emitter passes every pending event to it once,
\* in the order of emission, and leaves the buffer empty.
C21_PendingBufferDrained ==
    LET passed == ProdSeen
        held == ProdQueued
    IN  /\ Len(producers.pendingEvents) <= MAX_PENDING_EVENTS
        /\ producers.emitter => producers.pendingEvents = <<>>
        /\ \A o \in producerLog.orphanMetrics :
              IF o.behind >= MAX_PENDING_EVENTS
              THEN o.id \notin passed /\ o.id \notin held
              ELSE IF o.id \in passed THEN o.id \notin held
              ELSE /\ o.behind < Len(producers.pendingEvents)
                   /\ producers.pendingEvents[o.behind + 1] = o.id
        /\ Ascending(producers.received \o producers.pendingEvents)

\* A full buffer was passed on, the metric made behind it was dropped, and a
\* metric made after the teardown is pending again.
C21_Witness ==
    /\ ~producers.emitter
    /\ Len(producers.received) = MAX_PENDING_EVENTS
    /\ Len(producers.pendingEvents) = 1
    /\ \E o \in producerLog.orphanMetrics : o.behind >= MAX_PENDING_EVENTS
-----------------------------------------------------------------------------
(* CLS session windows: C22 *)

WinLast == winLog.last

\* C22: a layout shift without recent input starts a new session window iff
\* it is the first one, or comes more than SESSION_GAP after the shift
\* counted before it, or more than SESSION_MAX after the first shift of the
\* window; otherwise it is added to the window.
C22_NewWindowIffGapOrDuration ==
    (winLog.count > 0 /\ ~WinLast.hadRecentInput) =>
        LET fresh == \/ WinLast.counted = 0
                     \/ WinLast.startTime - WinLast.previous > 1000
                     \/ WinLast.startTime - WinLast.first > 5000
        IN  /\ fresh <=> WinLast.opened
            /\ ~fresh => WinLast.joined /\ ~WinLast.opened

\* A shift exactly 1000 ms after the one before it and exactly 5000 ms after
\* the first shift of its window stayed in the window.
C22_Witness ==
    /\ ~WinLast.hadRecentInput
    /\ WinLast.counted > 0
    /\ WinLast.startTime - WinLast.previous = 1000
    /\ WinLast.startTime - WinLast.first = 5000
    /\ WinLast.joined
    /\ win.sessionValue = 6 * WindowShiftValue
-----------------------------------------------------------------------------
(* The value of LCP: C23 *)

\* C23: the value reported at finalization is the largest startTime among
\* the entries observed, for any sequence of entry batches.
C23_LCPReportsLargest ==
    lcp.reports # <<>> => lcp.reports[1].value = lcpLog.largest

\* C23, amended: the value reported is the startTime of the last entry
\* observed, which is the largest one when the entries came in non-decreasing
\* order of startTime.
C23_LCPReportsLastEntry ==
    lcp.reports # <<>> =>
        /\ lcp.reports[1].value = lcpLog.last
        /\ lcpLog.ordered => lcp.reports[1].value = lcpLog.largest

\* Three growing entries in two batches, reported at finalization.
C23_Witness ==
    /\ lcp.reports # <<>>
    /\ lcpLog.entries = 3
    /\ lcpLog.ordered
    /\ lcp.reports[1].value = lcpLog.largest
    /\ lcpLog.largest >= 3000
-----------------------------------------------------------------------------
(* reset() and destroy(): C24, C25 *)

\* The session reset() replaced had been made in the same millisecond with
\* the same random suffix.
SessSameDraw ==
    /\ sessLog.found[1].id[1] = sessLog.at
    /\ sessLog.found[1].id[2] = sessLog.returned[1][2]

\* C24: reset() makes a new session, expired or not, saves it and returns
\* its id, which is not the id of the session it replaces; every
\* getSessionId() that follows, each at most the timeout after the call
\* before it, returns that id.
C24_ResetForcesNewSession ==
    /\ sessLog.op = "reset" =>
          /\ currentSession = <<[id |-> sessLog.returned[1],
                                 startedAt |-> sessLog.at,
                                 lastActivity |-> sessLog.at]>>
          /\ sessLog.usable => storage.item = <<stringify(currentSession[1])>>
          /\ (sessLog.found # <<>> /\ ~SessSameDraw) =>
                sessLog.returned[1] # sessLog.found[1].id
    /\ (sessLog.op = "getSessionId" /\ sessLog.pinned # <<>>) =>
          sessLog.returned = sessLog.pinned

\* The id of a reset() is still returned by a call made more than the
\* timeout after the reset, a call in between having kept the session alive.
C24_Witness ==
    /\ sessLog.op = "getSessionId"
    /\ sessLog.pinned # <<>>
    /\ sessLog.returned = sessLog.pinned
    /\ sessLog.at - sessLog.pinned[1][1] > opts.timeout
    /\ sessLog.found[1].startedAt = sessLog.pinned[1][1]
\* C25: after destroy() the manager holds no session and the configured
\* storage holds none under the session key, so that the next getSessionId()
\* has nothing to revive.
C25_DestroyClearsStorage ==
    sessLog.op = "destroy" =>
        /\ currentSession = <<>>
        /\ storage.item = <<>>
-----------------------------------------------------------------------------
(* Storage failures: C26 *)

\* C26: no getSessionId(), reset() or destroy() throws, whether the storage
\* probe fails, a read, write or removal throws, or the stored text is no
\* JSON or lacks a field; the manager keeps the session in memory, and a call
\* at most the timeout after the previous access returns the same id.
C26_StorageFailuresContained ==
    /\ ~sessLog.threw
    /\ sessLog.op \in {"getSessionId", "reset"} =>
          /\ currentSession # <<>>
          /\ sessLog.returned = <<currentSession[1].id>>
    /\ (SessCalled /\ sessLog.degraded /\ SessGap <= opts.timeout) =>
          sessLog.returned = <<sessLog.found[1].id>>

\* A call while setItem throws found the session in memory and returned its
\* id, the storage still holding an older text.
C26_Witness ==
    /\ SessCalled
    /\ sessLog.degraded
    /\ storage.fault = "setItem"
    /\ SessGap > 0
    /\ SessGap <= opts.timeout
    /\ sessLog.returned = <<sessLog.found[1].id>>
    /\ storage.item # <<stringify(currentSession[1])>>
    /\ ~sessLog.threw
-----------------------------------------------------------------------------
(* The hybrid transport after destroy(): C27 *)

\* C27: after destroy() no beforeunload or visibilitychange event changes
\* isUnloading, which keeps the value destroy() found, and send() goes on
\* delegating by it: to the unload transport if it is set, else to the
\* default one.
C27_DestroyFreezesFlag ==
    hybridLog.destroyed # <<>> =>
        /\ hybrid.isUnloading = hybridLog.destroyed[1]
        /\ hybridLog.last = "send" =>
              hybridLog.via = IF hybridLog.destroyed[1] THEN hybrid.unloadMode
                              ELSE hybrid.defaultMode

\* Destroyed while hidden: the page is visible again and a send still went
\* to the beacon transport.
C27_Witness ==
    /\ hybridLog.destroyed = <<TRUE>>
    /\ docVisibility = "visible"
    /\ hybridLog.last = "send"
    /\ hybridLog.via = "beacon"
    /\ hybrid.defaultMode = "fetch"
    /\ hybrid.unloadMode = "beacon"
-----------------------------------------------------------------------------
(* The sampler: C28 *)

\* C28: shouldSample(type) returns true without a random draw when the
\* normalized rate of the type is 1 or more, false without a draw when it is
\* 0 or less, and otherwise makes exactly one draw u and returns u < rate;
\* whatever calls came before.
C28_ShouldSampleByRateAlone ==
    samplerLog.last # <<>> =>
        LET c == samplerLog.last[1]
            rate == createSampler(samplerLog.config)[c.type]
        IN  /\ rate >= 10 => c.result /\ c.drew = 0
            /\ rate <= 0 => ~c.result /\ c.drew = 0
            /\ (rate > 0 /\ rate < 10) =>
                  /\ c.drew = 1
                  /\ c.result <=> c.draw < rate
            /\ samplerLog.random <= samplerLog.calls

\* A third call in a row that drew, with the draw at the rate: dropped.
C28_Witness ==
    /\ samplerLog.last # <<>>
    /\ samplerLog.calls >= 3
    /\ samplerLog.random = samplerLog.calls
    /\ createSampler(samplerLog.config)[samplerLog.last[1].type] = 3
    /\ samplerLog.last[1].draw = 3
    /\ ~samplerLog.last[1].result
-----------------------------------------------------------------------------
(* Batching by size: C29 *)

\* C29: bufferEvent calls flush exactly when the push makes buffer.length
\* reach batchSize: once bufferEvent is over the buffer holds fewer than
\* batchSize events, every batch flushed because of its size holds exactly
\* batchSize events, and a flush that finds the buffer empty does not call
\* transport.send.
C29_FlushAtBatchSize ==
    /\ Len(pipe.buffer) < BatchSize
    /\ \A i \in DOMAIN pipeLog.sized : pipeLog.sized[i] = BatchSize
    /\ \A i \in DOMAIN pipe.sent : pipe.sent[i] # <<>>
    /\ Len(pipe.sent) = Len(pipeLog.starts)
    /\ (pipeLog.trigger = "event" /\ pipeLog.flushed) =>
          /\ pipeLog.sized # <<>>
          /\ Len(pipeLog.starts[Len(pipeLog.starts)]) = BatchSize
          /\ pipe.buffer = <<>>

\* A push filled the buffer and flushed it, after a flush of a shorter
\* batch by another trigger and an event the filter turned away.
C29_Witness ==
    /\ pipeLog.trigger = "event"
    /\ pipeLog.flushed
    /\ pipeLog.sized # <<>>
    /\ Len(pipeLog.starts) > Len(pipeLog.sized)
    /\ Len(pipeLog.accepted) < pipeLog.next

\* A timer flush that found the buffer empty: nothing was sent at all.
C29_WitnessEmpty ==
    /\ pipeLog.trigger = "timer"
    /\ ~pipeLog.flushed
    /\ pipeLog.next > 0
    /\ pipe.sent = <<>>
-----------------------------------------------------------------------------
(* The beacon transport's split depth: C30 *)

\* C30: a send() of the beacon transport comes to an end with sendChunk
\* never called at a depth beyond MAX_CHUNK_DEPTH = 20; a chunk that
\* arrives at that depth is not serialized, split or handed to sendBeacon:
\* its events are dropped and console.error reports it.
C30_SplitDepthBounded ==
    BeaconSent =>
        /\ beaconLog.did.deepest <= MAX_CHUNK_DEPTH
        /\ beaconLog.did.past < MAX_CHUNK_DEPTH
        /\ beaconLog.did.droppedDepth > 0 =>
              /\ beaconLog.did.deepest = MAX_CHUNK_DEPTH
              /\ beaconLog.did.consoleErrors >= 1
        /\ beaconLog.did.handed + beaconLog.did.droppedSingle
              + beaconLog.did.droppedDepth + beaconLog.did.droppedQuiet
           = Length(beaconLog.events)

\* 2^20 events that would each fit alone: every one arrives at depth 20
\* and is dropped there, with nothing handed to sendBeacon.
C30_Witness ==
    /\ BeaconSent
    /\ beacon.navigator = "sendBeacon"
    /\ Length(beaconLog.events) = 2^MAX_CHUNK_DEPTH
    /\ beaconLog.did.droppedDepth = 2^MAX_CHUNK_DEPTH
    /\ beaconLog.did.consoleErrors = 2^MAX_CHUNK_DEPTH
    /\ beaconLog.did.deepest = MAX_CHUNK_DEPTH
    /\ beaconLog.did.past = MAX_CHUNK_DEPTH - 1
    /\ beaconLog.did.calls = 0
    /\ beaconLog.did.droppedSingle = 0
-----------------------------------------------------------------------------
(* The state machine: C31 *)

\* The last send() found no transition for its event in the current
\* state's own `on`, or the transition's guard returned false or threw.
MachineRefused ==
    /\ machineLog.sends > 0
    /\ \/ ~machineLog.found
       \/ machineLog.guard \in {"false", "throws"}

\* C31: a send() whose event the current state defines no transition for,
\* or whose guard returns false or throws, leaves state and context as they
\* were, runs no exit, transition or entry action, and gives the observer
\* no transition event.
C31_RefusedSendChangesNothing ==
    MachineRefused =>
        /\ machine.state = machineLog.from
        /\ machine.context.count = machineLog.before
        /\ machineLog.ran = <<>>
        /\ machineLog.emitted = 0
\* The same for the event types that no object literal inherits a property
\* for: this holds.
C31_PlainEventsRefused ==
    (MachineRefused /\ machineLog.event \notin ObjectPrototypeKeys) =>
        /\ machine.state = machineLog.from
        /\ machine.context.count = machineLog.before
        /\ machineLog.ran = <<>>
        /\ machineLog.emitted = 0

\* The guard of DECREMENT returned false at count 0, after an UNKNOWN event
\* and a CHECK whose guard threw were refused in the same state.
C31_PlainWitness ==
    /\ MachineRefused
    /\ machineLog.event = "DECREMENT"
    /\ machineLog.guard = "false"
    /\ machine.state = "active"
    /\ machine.observe
    /\ machineLog.sends >= 4
-----------------------------------------------------------------------------
(* The INP deduplication set: C32 *)

\* C32: processedInteractions never holds more than 1000 identifiers, also
\* in the middle of a batch: a new identifier that finds 1000 in the set
\* is added to the cleared set.
C32_DedupSetCapped ==
    /\ Cardinality(inp.processedInteractions) <= INP_DEDUP_CAP
    /\ inp.peak <= INP_DEDUP_CAP
    /\ inp.clears > 0 => inp.peak = INP_DEDUP_CAP
    /\ inp.clears = 0 => inp.processedInteractions = inpLog.seen
    /\ inp.processedInteractions \subseteq inpLog.seen

\* The set held 1000 identifiers, was cleared once, and holds the two that
\* came after.
C32_Witness ==
    /\ inp.peak = INP_DEDUP_CAP
    /\ inp.clears = 1
    /\ Cardinality(inp.processedInteractions) = 2
    /\ Cardinality(inpLog.seen) = INP_DEDUP_CAP + 2
-----------------------------------------------------------------------------
(* Teardown and the last vitals: C33 *)

\* C33: when the teardown of the pipeline is over the buffer is empty and
\* every event ever pushed to it, a vital reported by an observer's cleanup
\* during this teardown included, has been given to transport.send.
C33_TeardownDeliversAll ==
    pipeLog.trigger = "teardown" =>
        /\ pipe.buffer = <<>>
        /\ Flatten(pipe.sent) = pipeLog.accepted

\* The same where transport.send never threw during the teardown: violated
\* as well.
C33_TeardownDeliversAllNoThrow ==
    (pipeLog.trigger = "teardown" /\ ~pipeLog.threw) =>
        /\ pipe.buffer = <<>>
        /\ Flatten(pipe.sent) = pipeLog.accepted
-----------------------------------------------------------------------------
(* Vitals at the page's lifecycle events: C34 *)

LifeSent == {Flatten(life.p.sent)[i] : i \in DOMAIN Flatten(life.p.sent)}

\* C34: when the dispatch of a visibilitychange to hidden or of a pagehide
\* is over, every vital an observer finalized during it has been given to
\* transport.send.
C34_FinalizedVitalsSentAtOnce ==
    lifeLog.event \in {"hidden", "pagehide"} =>
        lifeLog.finalized \subseteq LifeSent

\* The same for visibilitychange to hidden alone: this holds.
C34_HiddenVitalsSentAtOnce ==
    lifeLog.event = "hidden" => lifeLog.finalized \subseteq LifeSent

\* A visibilitychange to hidden finalized a vital, the second one of the
\* run, and no flush by size helped: it was sent alone.
C34_HiddenWitness ==
    /\ lifeLog.event = "hidden"
    /\ lifeLog.finalized # {}
    /\ Len(life.cls.reports) = 2
    /\ life.l.starts # <<>>
    /\ Len(Last(life.l.starts)) = 1
-----------------------------------------------------------------------------
(* The global observer under several pipelines: C35 *)

\* C35: while the pipeline initialized last has not been torn down, the
\* global observer is not null and is that pipeline's, also after the
\* teardown of a pipeline it superseded.
C35_LatestPipelineStaysCurrent ==
    (registry.started > 0 /\ registry.started \notin registry.torn) =>
        registry.observer = registry.started

\* The global observer is null or the latest pipeline's: it never goes back
\* to a superseded one.
C35_NeverAnEarlierPipeline ==
    registry.observer \in {0, registry.started}

\* A superseded pipeline was torn down while the latest one runs, and the
\* transition that followed reached no pipeline.
C35_LostWitness ==
    /\ registry.started = 2
    /\ registry.torn = {1}
    /\ registryLog.last = "transition"
    /\ registryLog.pipeline = 0
-----------------------------------------------------------------------------
(* The CLS observer's last report: C36 *)

\* C36: once a CLS observer that saw a positive shift without recent input
\* has been torn down, the last value it gave the callback is the largest
\* session-window total of its lifetime.
C36_LastReportIsLifetimeMax ==
    (~cls.active /\ CLSCounted # <<>>) =>
        /\ cls.reports # <<>>
        /\ Last(cls.reports).value = MaxWindow(CLSCounted)

\* The same where no shift came after a hidden or pagehide event: this
\* holds.
C36_LastReportWithoutLateShift ==
    (~cls.active /\ CLSCounted # <<>> /\ ~clsLog.late) =>
        /\ cls.reports # <<>>
        /\ Last(cls.reports).value = MaxWindow(CLSCounted)

\* An observer torn down after a hidden event and no later shift.
C36_NoLateShiftWitness ==
    /\ ~cls.active
    /\ ~clsLog.late
    /\ clsLog.triggers = 2
    /\ Len(CLSCounted) >= 2
    /\ Len(cls.reports) = 1
-----------------------------------------------------------------------------
(* LCP reported by teardown at the latest: C37 *)

\* C37: if the browser produced an LCP entry between the creation of the
\* observer and its teardown, the callback has been invoked exactly once
\* when teardown returns, also where an input or hidden event came before
\* the first entry.
C37_ReportedOnceIfAnyEntry ==
    (lcpLog.torn /\ lcpLog.entries + lcpLog.missed > 0) =>
        Len(lcp.reports) = 1

\* C37, amended: if the observer observed an LCP entry, which it does until
\* the first input or hidden event, the callback has been invoked exactly
\* once when teardown returns.
C37_ReportedOnceIfObserved ==
    (lcpLog.torn /\ lcpLog.entries > 0) => Len(lcp.reports) = 1

\* An entry, an input event, an entry the disconnected observer did not
\* see, teardown: one report.
C37_Witness ==
    /\ lcpLog.torn
    /\ lcpLog.entries > 0
    /\ lcpLog.events > 0
    /\ lcpLog.missed > 0
    /\ Len(lcp.reports) = 1

\* An entry, then teardown with no input or hidden event before it: the
\* report is the cleanup's.
C37_WitnessTeardownReports ==
    /\ lcpLog.torn
    /\ lcpLog.entries > 0
    /\ lcpLog.events = 0
    /\ Len(lcp.reports) = 1
-----------------------------------------------------------------------------
(* Two session managers on one storage: C38 *)

\* C38: two managers on the same persistent storage return the same id:
\* when both have called getSessionId() at the present time, with no
\* reset() since, the two ids are equal.
C38_ManagersAgree ==
    (/\ tabsLog.returned[1] # <<>> /\ tabsLog.returned[2] # <<>>
     /\ tabsLog.at[1] = tabs.now /\ tabsLog.at[2] = tabs.now) =>
        tabsLog.returned[1] = tabsLog.returned[2]

\* The same in runs without any reset(): violated as well, once the
\* session the managers shared has expired.
C38_ManagersAgreeWithoutReset ==
    (/\ tabsLog.resets = 0
     /\ tabsLog.returned[1] # <<>> /\ tabsLog.returned[2] # <<>>
     /\ tabsLog.at[1] = tabs.now /\ tabsLog.at[2] = tabs.now) =>
        tabsLog.returned[1] = tabsLog.returned[2]

\* A manager with no session in memory returns the unexpired session it
\* finds in storage: this holds.
C38_FreshManagerJoins ==
    (tabsLog.op = "getSessionId" /\ tabsLog.joined # <<>>) =>
        tabsLog.returned[tabsLog.who] = tabsLog.joined

\* A reloaded tab took over the session the other tab had made by reset().
C38_JoinWitness ==
    /\ tabsLog.op = "getSessionId"
    /\ tabsLog.joined # <<>>
    /\ tabsLog.returned[1] = tabsLog.returned[2]
    /\ tabsLog.returned[1] # <<>>
    /\ tabsLog.calls >= 4
-----------------------------------------------------------------------------
(* Insertion order through the pipeline: C39 *)

\* C39: the batches given to transport.send, one after the other in send
\* order, list the events in the order bufferEvent accepted them, within a
\* batch and from batch to batch; what is still in the buffer follows in the
\* same order.
C39_InsertionOrderKept ==
    /\ Flatten(pipe.sent) \o pipe.buffer = pipeLog.accepted
    /\ Ascending(Flatten(pipe.sent))

\* Two batches, one of two events and one of a single event, with an event
\* the filter turned away, and nothing left in the buffer.
C39_Witness ==
    /\ Len(pipe.sent) >= 2
    /\ \E i \in DOMAIN pipe.sent : Len(pipe.sent[i]) >= 2
    /\ \E i \in DOMAIN pipe.sent : Len(pipe.sent[i]) = 1
    /\ Len(pipeLog.accepted) < pipeLog.next
    /\ Len(Flatten(pipe.sent)) = Len(pipeLog.accepted)
-----------------------------------------------------------------------------
(* The beacon transport's chunks: C40 *)

BeaconSlices == beaconLog.did.slices

RECURSIVE SliceEvents(_)
SliceEvents(slices) ==
    IF slices = <<>> THEN 0
    ELSE Head(slices).count * Head(slices).width + SliceEvents(Tail(slices))

\* C40: the chunks handed to sendBeacon are slices of the batch that lie
\* within it, in call order each starts at or after the end of the one
\* before: no event is in two chunks and the events go out in batch order.
C40_ChunksDisjointInOrder ==
    BeaconSent =>
        /\ \A i \in DOMAIN BeaconSlices :
              /\ BeaconSlices[i].from >= 0
              /\ BeaconSlices[i].width >= 1
              /\ BeaconSlices[i].count >= 1
              /\ BeaconSlices[i].from
                    + BeaconSlices[i].count * BeaconSlices[i].width
                 <= Length(beaconLog.events)
        /\ \A i \in 1..(Len(BeaconSlices) - 1) :
              BeaconSlices[i].from
                    + BeaconSlices[i].count * BeaconSlices[i].width
                 <= BeaconSlices[i + 1].from
        /\ SliceEvents(BeaconSlices) = beaconLog.did.handed

\* Three events: the first was dropped for its size, the other two went out
\* one by one, in order.
C40_Witness ==
    /\ BeaconSent
    /\ Length(beaconLog.events) = 3
    /\ beaconLog.did.droppedSingle = 1
    /\ BeaconSlices = <<[from |-> 1, count |-> 2, width |-> 1]>>

\* 2^19 events went out in as many chunks of one event.
C40_WitnessLong ==
    /\ BeaconSent
    /\ Length(beaconLog.events) = 2^(MAX_CHUNK_DEPTH - 1)
    /\ BeaconSlices = <<[from |-> 0, count |-> 2^(MAX_CHUNK_DEPTH - 1),
                         width |-> 1]>>

====
